---- MODULE Spec2Model ----
(***************************************************************************)
(* Offline-first synchronisation engine and bank aggregation pipeline of   *)
(* KopiMaster: the Dexie sync queue, the two drain loops                   *)
(* (SyncManager.sync and useSyncStore.syncPendingItems), the transactions  *)
(* store and the bank-connection sync pass.                                *)
(***************************************************************************)
EXTENDS Integers, Sequences, FiniteSets, TLC

\* ------------------------------------------------------------------------
\* Bounds
\* ------------------------------------------------------------------------
\* rows the sync-queue table may hold
MaxQueue == 2
\* local transactions the store may hold
MaxTx == 2
\* activations of one drain loop the model can represent at the same time
MaxRuns == 2
\* bank connections the store may hold
MaxConn == 1
\* accounts a provider lists for one connection
MaxAccounts == 2
\* transactions a provider returns in one listing
MaxList == 2
\* distinct transaction ids a provider knows
MaxExtTx == 2
\* pages of one cursor-paginated listing
MaxPages == 1
\* bank sync passes in one behaviour
MaxPasses == 1
\* local transactions and queue rows the bank passes may create
MaxBankTx == 6
MaxBankRows == 8
\* calls made on the MonobankProvider instance
MaxCalls == 4
\* how far the clock runs, in rate-limit intervals
MaxIntervals == 2
\* words in a transaction description
MaxWords == 2
\* requests of one cursor-paginated listing, made one after the other
MaxSyncPages == 2
\* keys in the payload of an update
MaxKeys == 2
\* accounts and transactions the stores create, and store actions in one
\* behaviour
MaxLedgerAccounts == 2
MaxLedgerTx == 2
MaxStoreOps == 3
\* mutations of the record whose queued writes are replayed
MaxMutations == 3
\* updateTransaction calls on one transaction, and loadTransactions calls
MaxUpdates == 2
MaxLoads == 1
\* syncConnection calls under way at the same time on one connection
MaxOverlap == 2
\* transferBetweenAccounts: accounts, calls, amounts and opening balances
MaxTransferAccounts == 2
MaxTransfers == 2
MaxAmount == 2
MaxBalance == 2

QueueIds == 1..MaxQueue
TxIds == 1..MaxTx
RunSlots == 1..MaxRuns
ConnIds == 1..MaxConn
ExtAccounts == 1..MaxAccounts
ExtTxIds == 1..MaxExtTx
BankTxIds == 1..MaxBankTx
BankQueueIds == 1..MaxBankRows

\* ------------------------------------------------------------------------
\* JavaScript values stored in the `synced` column, and IndexedDB keys
\* ------------------------------------------------------------------------
JSBool(b) == [type |-> "boolean", val |-> IF b THEN 1 ELSE 0]
JSNum(n) == [type |-> "number", val |-> n]

\* IndexedDB indexes a row under a key path only when the value there is a
\* valid key (number, string, date, array); a boolean is not a valid key and
\* the row is left out of that index.
IsValidKey(v) == v.type = "number"

\* ------------------------------------------------------------------------
\* Variables
\* ------------------------------------------------------------------------
VARIABLES
    remote,        \* "offline" | "rejecting" | "accepting": navigator.onLine and the remote store
    configured,    \* isSupabaseConfigured()
    syncQueue,     \* db.syncQueue: set of rows keyed by id
    clock,         \* number of rows created so far (orders createdAt)
    transactions,  \* useTransactionsStore.transactions, newest first
    remoteWrites,  \* remote writes issued so far: [table, op, recordId, ok]
    sm,            \* SyncManager fields: [isOnline, isSyncing]
    smRuns,        \* activations of SyncManager.sync, by slot
    st,            \* useSyncStore fields: [isOnline, isSyncing, pendingCount, error]
    stRuns,        \* activations of useSyncStore.syncPendingItems, by slot
    step,          \* what the last step did: sync() call, events emitted, pass completed
    connections,   \* useBankConnectionsStore.connections
    accounts,      \* useAccountsStore.accounts
    bank,          \* activations of useBankConnectionsStore.syncConnection
    mono,          \* the MonobankProvider instance: limiter fields and its last call
    categorized,   \* a call of autoCategorize: its arguments and what it returned
    ledger,        \* accounts and transactions, local and remote, with their amounts
    plaid,         \* a call of PlaidProvider.getTransactions: its loop and its pages
    translated,    \* a payload's keys, before and after transformToSnakeCase
    replay,        \* one record, its queued writes with their payloads, its remote row
    inserted,      \* one new record: the row its direct insert sends and the row replayed
    txstore,       \* one transaction of useTransactionsStore and the calls under way on it
    overlap,       \* passes of syncConnection under way at the same time on one connection
    transfer       \* account balances of useAccountsStore and the transfers under way

\* the variables of the components the synchronisation engine does not touch
featureVars == <<mono, categorized, ledger, plaid, translated, replay, inserted, txstore, overlap, transfer>>

vars == <<remote, configured, syncQueue, clock, transactions, remoteWrites,
          sm, smRuns, st, stRuns, step, connections, accounts, bank, mono, categorized, ledger,
          plaid, translated, replay, inserted, txstore, overlap, transfer>>

\* ------------------------------------------------------------------------
\* Sync queue (lib/db)
\* ------------------------------------------------------------------------
TableNames == {"transactions", "bank_connections"}
Operations == {"insert", "update", "delete"}

Row(id, tableName, operation, recordId, synced, createdAt) ==
    [id |-> id, tableName |-> tableName, operation |-> operation,
     recordId |-> recordId, synced |-> synced, createdAt |-> createdAt]

RowById(q, id) == CHOOSE r \in q : r.id = id
HasRow(q, id) == \E r \in q : r.id = id

\* Ascending order of a finite set of numbers
RECURSIVE SortedSeq(_)
SortedSeq(S) ==
    IF S = {} THEN <<>>
    ELSE LET m == CHOOSE x \in S : \A y \in S : x <= y
         IN <<m>> \o SortedSeq(S \ {m})

\* db.syncQueue.where('synced').equals(0).toArray(): the rows found in the
\* `synced` index under the key 0, in index order (key, then primary key id).
getUnsyncedItems(q) ==
    SortedSeq({r.id : r \in {x \in q : IsValidKey(x.synced) /\ x.synced = JSNum(0)}})

\* db.syncQueue.update(id, {synced: true, syncedAt})
markAsSynced(q, id) ==
    {IF r.id = id THEN [r EXCEPT !.synced = JSBool(TRUE)] ELSE r : r \in q}

\* db.syncQueue.add({...item, id, synced: false, createdAt})
addToSyncQueue(q, id, tableName, operation, recordId, createdAt) ==
    q \cup {Row(id, tableName, operation, recordId, JSBool(FALSE), createdAt)}

\* A row that was enqueued and not yet marked synced
IsPending(r) == r.synced \in {JSBool(FALSE), JSNum(0)}
IsMarkedSynced(r) == r.synced = JSBool(TRUE)

\* ------------------------------------------------------------------------
\* Remote store
\* ------------------------------------------------------------------------
Write(table, op, recordId, ok) ==
    [table |-> table, op |-> op, recordId |-> recordId, ok |-> ok]

\* supabase.from(table).<op>(...): resolves to {error: null} when the remote
\* store accepts the write, to {error} otherwise.
RemoteOk == remote = "accepting"

\* ------------------------------------------------------------------------
\* Drain-loop activations
\* ------------------------------------------------------------------------
\* outcomes[k]: what syncItem did for items[k] ("ok", "fail": the remote write
\* and its result; "skip": no remote write); marked: the k this pass marked synced
IdleRun == [pc |-> "idle", items |-> <<>>, idx |-> 0, syncedCount |-> 0,
            outcomes |-> <<>>, marked |-> {}]
NoStep == [call |-> "none", entered |-> FALSE, emits |-> <<>>, done |-> "none",
           items |-> <<>>, outcomes |-> <<>>, marked |-> {}, syncedCount |-> 0,
           data |-> 0]

ActiveSlots(runs) == {s \in RunSlots : runs[s].pc # "idle"}
FreeSlot(runs) == CHOOSE s \in RunSlots : runs[s].pc = "idle"
HasFreeSlot(runs) == \E s \in RunSlots : runs[s].pc = "idle"

\* ------------------------------------------------------------------------
\* SyncManager (services/sync/SyncManager.ts)
\* ------------------------------------------------------------------------
\* tableMapping of SyncManager.syncItem
SMTables == {"transactions", "accounts", "savings_goals", "budgets",
             "recurring_transactions", "user_achievements", "user_stats"}

\* variant of the early return without the re-entrancy test
SMGuardIgnoresSyncing(m) == ~m.isOnline \/ ~configured

\* the early return of sync(): offline, already draining, or no remote store
SMGuardBlocks(m) == ~m.isOnline \/ m.isSyncing \/ ~configured

\* sync() up to its first await, called by `by` on the fields m, after the
\* caller emitted the events `pre`
SMSyncEnter(by, m, pre) ==
    IF SMGuardBlocks(m)
    THEN /\ sm' = m
         /\ smRuns' = smRuns
         /\ step' = [NoStep EXCEPT !.call = by, !.emits = pre]
    ELSE /\ HasFreeSlot(smRuns)
         /\ sm' = [m EXCEPT !.isSyncing = TRUE]
         /\ IF "sync-start" \in m.listeners
            THEN \* emit('sync-start') stands before the try: the call ends here
                 /\ smRuns' = smRuns
                 /\ step' = [NoStep EXCEPT !.call = by, !.entered = TRUE, !.done = "threw",
                                           !.emits = pre \o <<"sync-start">>]
            ELSE /\ smRuns' = [smRuns EXCEPT ![FreeSlot(smRuns)] =
                                 [IdleRun EXCEPT !.pc = "list"]]
                 /\ step' = [NoStep EXCEPT !.call = by, !.entered = TRUE,
                                           !.emits = pre \o <<"sync-start">>]

\* the catch block of sync(), entered after the events `pre` of the try block:
\* isSyncing = false, emit('sync-error'), return {success: false, syncedCount: 0}
SMCatch(s, run, pre) ==
    /\ sm' = [sm EXCEPT !.isSyncing = FALSE]
    /\ smRuns' = [smRuns EXCEPT ![s] = IdleRun]
    /\ step' = [NoStep EXCEPT !.emits = pre \o <<"sync-error">>,
                              !.done = IF "sync-error" \in sm.listeners
                                       THEN "threw" ELSE "sm-error",
                              !.items = run.items, !.outcomes = run.outcomes,
                              !.marked = run.marked,
                              !.data = IF pre = <<>> THEN 0 ELSE run.syncedCount]

\* variant of the end of the loop whose event carries no count
SMFinishWithoutCount(s, run) ==
    /\ sm' = [sm EXCEPT !.isSyncing = FALSE]
    /\ smRuns' = [smRuns EXCEPT ![s] = IdleRun]
    /\ step' = [NoStep EXCEPT !.emits = <<"sync-complete">>, !.done = "sm",
                              !.items = run.items, !.outcomes = run.outcomes,
                              !.marked = run.marked, !.syncedCount = run.syncedCount]

\* the end of the for loop: isSyncing = false, emit('sync-complete', {syncedCount})
SMFinish(s, run) ==
    IF "sync-complete" \in sm.listeners
    THEN SMCatch(s, run, <<"sync-complete">>)
    ELSE /\ sm' = [sm EXCEPT !.isSyncing = FALSE]
         /\ smRuns' = [smRuns EXCEPT ![s] = IdleRun]
         /\ step' = [NoStep EXCEPT !.emits = <<"sync-complete">>, !.done = "sm",
                                   !.items = run.items, !.outcomes = run.outcomes,
                                   !.marked = run.marked, !.syncedCount = run.syncedCount,
                                   !.data = run.syncedCount]

\* after the body of the loop for items[idx]: next item, or the end of the loop
SMAdvance(s, run) ==
    IF run.idx < Len(run.items)
    THEN /\ smRuns' = [smRuns EXCEPT ![s] = [run EXCEPT !.pc = "item", !.idx = run.idx + 1]]
         /\ sm' = sm
         /\ step' = NoStep
    ELSE SMFinish(s, run)

\* sync() resumed after `await getUnsyncedItems()`, which resolves to the
\* listing or rejects (the local database fails the query)
SMList(s) ==
    LET items == getUnsyncedItems(syncQueue)
        run == [smRuns[s] EXCEPT !.items = items]
    IN /\ \E rejected \in BOOLEAN :
            IF rejected
            THEN SMCatch(s, smRuns[s], <<>>)
            ELSE IF items = <<>>
                 THEN SMFinish(s, run)
                 ELSE /\ smRuns' = [smRuns EXCEPT ![s] =
                                      [run EXCEPT !.pc = "item", !.idx = 1]]
                      /\ sm' = sm
                      /\ step' = NoStep
       /\ UNCHANGED <<syncQueue, remoteWrites>>

\* syncItem(item): no remote call for a table outside tableMapping; otherwise
\* the remote write, and `throw` when its result carries an error, which the
\* catch of the loop body swallows
SMItem(s) ==
    LET run == smRuns[s]
        item == RowById(syncQueue, run.items[run.idx])
    IN IF item.tableName \notin SMTables
       THEN /\ smRuns' = [smRuns EXCEPT ![s] =
                            [run EXCEPT !.pc = "mark", !.outcomes = Append(@, "skip")]]
            /\ UNCHANGED <<sm, syncQueue, remoteWrites>>
            /\ step' = NoStep
       ELSE /\ remoteWrites' = remoteWrites \cup
                 {Write(item.tableName, item.operation, item.recordId, RemoteOk)}
            /\ UNCHANGED syncQueue
            /\ IF RemoteOk
               THEN /\ smRuns' = [smRuns EXCEPT ![s] =
                                    [run EXCEPT !.pc = "mark", !.outcomes = Append(@, "ok")]]
                    /\ sm' = sm
                    /\ step' = NoStep
               ELSE SMAdvance(s, [run EXCEPT !.outcomes = Append(@, "fail")])

\* `await markAsSynced(item.id); syncedCount++`
SMMark(s) ==
    LET run == smRuns[s]
    IN /\ syncQueue' = markAsSynced(syncQueue, run.items[run.idx])
       /\ UNCHANGED remoteWrites
       /\ SMAdvance(s, [run EXCEPT !.syncedCount = @ + 1, !.marked = @ \cup {run.idx}])

\* sync() resumed at one of its awaits
SMResume ==
    /\ \E s \in ActiveSlots(smRuns) :
          CASE smRuns[s].pc = "list" -> SMList(s)
            [] smRuns[s].pc = "item" -> SMItem(s)
            [] smRuns[s].pc = "mark" -> SMMark(s)
    /\ UNCHANGED featureVars
    /\ UNCHANGED <<remote, configured, clock, transactions, st, stRuns,
                   connections, accounts, bank>>

\* the setInterval callback of startPeriodicSync
TimerTick ==
    /\ IF sm.isOnline /\ ~sm.isSyncing
       THEN SMSyncEnter("timer", sm, <<>>)
       ELSE /\ UNCHANGED <<sm, smRuns>>
            /\ step' = NoStep
    /\ UNCHANGED featureVars
    /\ UNCHANGED <<remote, configured, syncQueue, clock, transactions, remoteWrites,
                   st, stRuns, connections, accounts, bank>>

\* on(event, callback) for a callback that raises when it is called; the
\* callbacks that return leave no trace in the manager
On ==
    /\ \E event \in {"sync-start", "sync-complete", "sync-error"} \ sm.listeners :
          sm' = [sm EXCEPT !.listeners = @ \cup {event}]
    /\ step' = NoStep
    /\ UNCHANGED featureVars
    /\ UNCHANGED <<remote, configured, syncQueue, clock, transactions, remoteWrites,
                   smRuns, st, stRuns, connections, accounts, bank>>

\* a manual sync request: syncManager.sync() from the offline indicator
ManualSync ==
    /\ SMSyncEnter("manual", sm, <<>>)
    /\ UNCHANGED featureVars
    /\ UNCHANGED <<remote, configured, syncQueue, clock, transactions, remoteWrites,
                   st, stRuns, connections, accounts, bank>>

\* ------------------------------------------------------------------------
\* useSyncStore (stores/useSyncStore.ts)
\* ------------------------------------------------------------------------
\* tableMapping of the store's syncItem
StTables == {"transactions", "accounts", "savings_goals", "budgets",
             "recurring_transactions", "user_achievements"}

StGuardBlocks(t) == ~t.isOnline \/ t.isSyncing \/ ~configured

\* syncPendingItems() up to its first await, on the fields t
StSyncEnter(t) ==
    IF StGuardBlocks(t)
    THEN /\ st' = t
         /\ stRuns' = stRuns
    ELSE /\ HasFreeSlot(stRuns)
         /\ st' = [t EXCEPT !.isSyncing = TRUE, !.error = FALSE]
         /\ stRuns' = [stRuns EXCEPT ![FreeSlot(stRuns)] = [IdleRun EXCEPT !.pc = "list"]]

\* set({isSyncing: false, pendingCount: 0, lastSyncAt})
StFinish(s, run) ==
    /\ st' = [st EXCEPT !.isSyncing = FALSE, !.pendingCount = 0]
    /\ stRuns' = [stRuns EXCEPT ![s] = IdleRun]
    /\ step' = [NoStep EXCEPT !.done = "st", !.items = run.items,
                              !.outcomes = run.outcomes, !.marked = run.marked,
                              !.syncedCount = run.syncedCount]

StAdvance(s, run) ==
    IF run.idx < Len(run.items)
    THEN /\ stRuns' = [stRuns EXCEPT ![s] = [run EXCEPT !.pc = "item", !.idx = run.idx + 1]]
         /\ st' = st
         /\ step' = NoStep
    ELSE StFinish(s, run)

StList(s) ==
    LET items == getUnsyncedItems(syncQueue)
        run == [stRuns[s] EXCEPT !.items = items]
    IN /\ IF items = <<>>
          THEN StFinish(s, run)
          ELSE /\ stRuns' = [stRuns EXCEPT ![s] = [run EXCEPT !.pc = "item", !.idx = 1]]
               /\ st' = st
               /\ step' = NoStep
       /\ UNCHANGED <<syncQueue, remoteWrites>>

\* the store's syncItem(item): the result of the remote call is not read
StItem(s) ==
    LET run == stRuns[s]
        item == RowById(syncQueue, run.items[run.idx])
    IN /\ IF item.tableName \notin StTables
          THEN /\ stRuns' = [stRuns EXCEPT ![s] =
                               [run EXCEPT !.pc = "mark", !.outcomes = Append(@, "skip")]]
               /\ UNCHANGED remoteWrites
          ELSE /\ remoteWrites' = remoteWrites \cup
                    {Write(item.tableName, item.operation, item.recordId, RemoteOk)}
               /\ stRuns' = [stRuns EXCEPT ![s] =
                               [run EXCEPT !.pc = "mark",
                                           !.outcomes = Append(@, IF RemoteOk THEN "ok" ELSE "fail")]]
       /\ UNCHANGED <<st, syncQueue>>
       /\ step' = NoStep

StMark(s) ==
    LET run == stRuns[s]
    IN /\ syncQueue' = markAsSynced(syncQueue, run.items[run.idx])
       /\ UNCHANGED remoteWrites
       /\ StAdvance(s, [run EXCEPT !.syncedCount = @ + 1, !.marked = @ \cup {run.idx}])

\* syncPendingItems() resumed at one of its awaits
StResume ==
    /\ \E s \in ActiveSlots(stRuns) :
          CASE stRuns[s].pc = "list" -> StList(s)
            [] stRuns[s].pc = "item" -> StItem(s)
            [] stRuns[s].pc = "mark" -> StMark(s)
    /\ UNCHANGED featureVars
    /\ UNCHANGED <<remote, configured, clock, transactions, sm, smRuns,
                   connections, accounts, bank>>

\* forcSync: set({pendingCount: 0}); await syncPendingItems()
ForcSync ==
    /\ StSyncEnter([st EXCEPT !.pendingCount = 0])
    /\ step' = NoStep
    /\ UNCHANGED featureVars
    /\ UNCHANGED <<remote, configured, syncQueue, clock, transactions, remoteWrites,
                   sm, smRuns, connections, accounts, bank>>

\* checkPendingItems: pendingCount = getUnsyncedItems().length
CheckPendingItems ==
    /\ st' = [st EXCEPT !.pendingCount = Len(getUnsyncedItems(syncQueue))]
    /\ step' = NoStep
    /\ UNCHANGED featureVars
    /\ UNCHANGED <<remote, configured, syncQueue, clock, transactions, remoteWrites,
                   sm, smRuns, stRuns, connections, accounts, bank>>

\* ------------------------------------------------------------------------
\* Browser connectivity events
\* ------------------------------------------------------------------------
\* window 'online': SyncManager.handleOnline, then the store's setOnline(true)
GoOnline ==
    /\ remote = "offline"
    /\ remote' \in {"accepting", "rejecting"}
    /\ SMSyncEnter("online", [sm EXCEPT !.isOnline = TRUE], <<"online">>)
    /\ StSyncEnter([st EXCEPT !.isOnline = TRUE])
    /\ UNCHANGED featureVars
    /\ UNCHANGED <<configured, syncQueue, clock, transactions, remoteWrites,
                   connections, accounts, bank>>

\* window 'offline': SyncManager.handleOffline, then the store's setOnline(false)
GoOffline ==
    /\ remote # "offline"
    /\ remote' = "offline"
    /\ sm' = [sm EXCEPT !.isOnline = FALSE]
    /\ st' = [st EXCEPT !.isOnline = FALSE]
    /\ step' = [NoStep EXCEPT !.emits = <<"offline">>]
    /\ UNCHANGED featureVars
    /\ UNCHANGED <<configured, syncQueue, clock, transactions, remoteWrites,
                   smRuns, stRuns, connections, accounts, bank>>

\* the remote store starts or stops accepting writes while the device is online
ServerFlip ==
    /\ remote # "offline"
    /\ remote' = IF remote = "accepting" THEN "rejecting" ELSE "accepting"
    /\ step' = NoStep
    /\ UNCHANGED featureVars
    /\ UNCHANGED <<configured, syncQueue, clock, transactions, remoteWrites,
                   sm, smRuns, st, stRuns, connections, accounts, bank>>

\* ------------------------------------------------------------------------
\* useTransactionsStore.addTransaction (stores/useTransactionsStore.ts)
\* ------------------------------------------------------------------------
NoUser == ""
Users == {"u1"}

Tx(id, userId, bankTransactionId, accountId, isSynced) ==
    [id |-> id, userId |-> userId, bankTransactionId |-> bankTransactionId,
     accountId |-> accountId, isSynced |-> isSynced]

UsedTxIds(txs) == {txs[i].id : i \in DOMAIN txs}
UsedQueueIds(q) == {r.id : r \in q}

\* the remote insert is attempted only with a remote store and an owner
AddTransactionAttempts(userId) == configured /\ userId # NoUser

\* variant that queues every attempted insert, acknowledged or not
AddTransactionEnqueuesAlways(userId) == AddTransactionAttempts(userId)

\* the queue item is created when the attempted insert reports an error
AddTransactionEnqueues(userId) == AddTransactionAttempts(userId) /\ ~RemoteOk

\* the tables addTransaction works on
Db == [transactions |-> transactions, syncQueue |-> syncQueue, clock |-> clock,
       remoteWrites |-> remoteWrites]

\* addTransaction(data) on db: the record goes first into the list, then the
\* remote insert is attempted; on error one queue row (id qid) is added, on
\* success the record's isSynced becomes true
AddTransactionTo(db, id, userId, bankTransactionId, accountId, qid) ==
    LET synced == AddTransactionAttempts(userId) /\ RemoteOk
        enqueues == AddTransactionEnqueues(userId)
    IN [transactions |->
            <<Tx(id, userId, bankTransactionId, accountId, synced)>> \o db.transactions,
        remoteWrites |->
            IF AddTransactionAttempts(userId)
            THEN db.remoteWrites \cup {Write("transactions", "insert", id, RemoteOk)}
            ELSE db.remoteWrites,
        syncQueue |->
            IF enqueues
            THEN addToSyncQueue(db.syncQueue, qid, "transactions", "insert", id, db.clock + 1)
            ELSE db.syncQueue,
        clock |-> IF enqueues THEN db.clock + 1 ELSE db.clock]

SetDb(db) ==
    /\ transactions' = db.transactions
    /\ syncQueue' = db.syncQueue
    /\ clock' = db.clock
    /\ remoteWrites' = db.remoteWrites

AddTransactionEffect(id, userId, bankTransactionId, accountId, qid) ==
    SetDb(AddTransactionTo(Db, id, userId, bankTransactionId, accountId, qid))

\* ids crypto.randomUUID() may return for a new queue row (0: no row is needed)
NewQueueIds(needed) == IF needed THEN QueueIds \ UsedQueueIds(syncQueue) ELSE {0}

\* a user adds a transaction by hand. dbFails: db.transactions.add rejects,
\* which happens after the record was put into the list and ends the call
AddTransaction ==
    /\ Len(transactions) < MaxTx
    /\ \E id \in TxIds \ UsedTxIds(transactions), userId \in Users \cup {NoUser},
          dbFails \in BOOLEAN :
         IF dbFails
         THEN /\ transactions' = <<Tx(id, userId, 0, 0, FALSE)>> \o transactions
              /\ UNCHANGED <<syncQueue, clock, remoteWrites>>
              /\ step' = [NoStep EXCEPT !.call = "addTransaction", !.done = "threw"]
         ELSE /\ \E qid \in NewQueueIds(AddTransactionEnqueues(userId)) :
                    AddTransactionEffect(id, userId, 0, 0, qid)
              /\ step' = NoStep
    /\ UNCHANGED featureVars
    /\ UNCHANGED <<remote, configured, sm, smRuns, st, stRuns, connections, accounts, bank>>

\* ------------------------------------------------------------------------
\* useBankConnectionsStore.addConnection (stores/useBankConnectionsStore.ts)
\* ------------------------------------------------------------------------
Providers == {"monobank", "nordigen", "plaid"}

Conn(id, userId, provider, status, lastSyncAt, errorMessage) ==
    [id |-> id, userId |-> userId, provider |-> provider, status |-> status,
     lastSyncAt |-> lastSyncAt, errorMessage |-> errorMessage]

AddConnectionEnqueues == configured /\ ~RemoteOk

\* addConnection(data): local record, remote insert, queue row on error
AddConnection ==
    /\ \E id \in ConnIds \ {c.id : c \in connections}, userId \in Users, provider \in Providers :
         \E qid \in NewQueueIds(AddConnectionEnqueues) :
            /\ connections' = connections \cup {Conn(id, userId, provider, "active", 0, <<>>)}
            /\ remoteWrites' =
                   IF configured
                   THEN remoteWrites \cup {Write("bank_connections", "insert", id, RemoteOk)}
                   ELSE remoteWrites
            /\ IF AddConnectionEnqueues
               THEN /\ syncQueue' = addToSyncQueue(syncQueue, qid, "bank_connections",
                                                   "insert", id, clock + 1)
                    /\ clock' = clock + 1
               ELSE UNCHANGED <<syncQueue, clock>>
    /\ step' = NoStep
    /\ UNCHANGED featureVars
    /\ UNCHANGED <<remote, configured, transactions, sm, smRuns, st, stRuns, accounts, bank>>

\* ------------------------------------------------------------------------
\* Bank providers (services/banking)
\* ------------------------------------------------------------------------
SeqsUpTo(S, n) == UNION {[1..k -> S] : k \in 0..n}

\* a transaction in the common shape every provider maps to
ProviderTx(id, accountId) == [id |-> id, accountId |-> accountId]

\* dates on the wire: before, inside and after the requested window
WireDates == 0..2
\* startDate and endDate of PlaidProvider.getTransactions
WindowStart == 1
WindowEnd == 1

WireTx == [transaction_id : ExtTxIds, account_id : ExtAccounts, date : WireDates]

\* one response of /transactions/sync; the last page is the one with has_more = false
PlaidPage == [added : SeqsUpTo(WireTx, 1), modified : SeqsUpTo(WireTx, 1)]
PlaidResponses == UNION {[1..k -> PlaidPage] : k \in 1..MaxPages}

\* allTransactions.push(...response.added, ...response.modified) over the pages
RECURSIVE PlaidAccumulate(_)
PlaidAccumulate(pages) ==
    IF pages = <<>> THEN <<>>
    ELSE Head(pages).added \o Head(pages).modified \o PlaidAccumulate(Tail(pages))

\* variant whose date window is open at its end
PlaidGetTransactionsOpenEnd(pages, accountId) ==
    LET kept == SelectSeq(PlaidAccumulate(pages),
                          LAMBDA tx : /\ tx.account_id = accountId
                                      /\ ~(tx.date < WindowStart \/ tx.date >= WindowEnd))
    IN [k \in 1..Len(kept) |-> ProviderTx(kept[k].transaction_id, kept[k].account_id)]

\* PlaidProvider.getTransactions: accumulate the pages, keep the requested
\* account and date window, map to the common shape
PlaidGetTransactions(pages, accountId) ==
    LET kept == SelectSeq(PlaidAccumulate(pages),
                          LAMBDA tx : /\ tx.account_id = accountId
                                      /\ ~(tx.date < WindowStart \/ tx.date > WindowEnd))
    IN [k \in 1..Len(kept) |-> ProviderTx(kept[k].transaction_id, kept[k].account_id)]

PlaidResults == [a \in ExtAccounts |-> {PlaidGetTransactions(p, a) : p \in PlaidResponses}]

\* Monobank and Nordigen getTransactions: the statement of the account, each
\* entry mapped with its own id and the requested account
StatementLists ==
    {l \in SeqsUpTo(ExtTxIds, MaxList) : \A i, j \in DOMAIN l : i # j => l[i] # l[j]}
StatementResults ==
    [a \in ExtAccounts |-> {[k \in 1..Len(l) |-> ProviderTx(l[k], a)] : l \in StatementLists}]

\* the longest list a provider returns
MaxListLen == IF 2 * MaxPages > MaxList THEN 2 * MaxPages ELSE MaxList

\* the lists provider.getTransactions(config, accountId, from) can resolve to
GetTransactionsResults(provider, accountId) ==
    IF provider = "plaid" THEN PlaidResults[accountId] ELSE StatementResults[accountId]

\* ------------------------------------------------------------------------
\* BankingService.syncConnection and useBankConnectionsStore.syncConnection
\* ------------------------------------------------------------------------
Acct(id, bankConnectionId, externalAccountId) ==
    [id |-> id, bankConnectionId |-> bankConnectionId,
     externalAccountId |-> externalAccountId]

\* the local account standing for external account a of connection c: its id
\* is new, no other account has it
LocalAccount(c, a) == Acct(a + MaxAccounts * c, c, a)

SyncResult(success, accountsSynced, transactionsSynced, newTransactions, errors, lastSyncAt) ==
    [success |-> success, accountsSynced |-> accountsSynced,
     transactionsSynced |-> transactionsSynced, newTransactions |-> newTransactions,
     errors |-> errors, lastSyncAt |-> lastSyncAt]

\* K: existingTransactionIds; accts: the provider's accounts; L: the provider
\* transactions returned so far; cb: the transactions handed to onTransaction;
\* perAccountErrors: errors caught by the catch of the account loop, and
\* failedAccts the accounts whose turn was ended by it;
\* svc / out: how the service call and the store call ended
\* `new Date().toISOString()` when pass p starts, and the values it can have
\* later in the same pass (the same millisecond or a later one)
StartStamp(p) == 2 * p

IdleBank ==
    [pc |-> "idle", conn |-> 0, passNo |-> 0, K |-> {}, accts |-> <<>>, aidx |-> 0,
     result |-> SyncResult(FALSE, 0, 0, 0, <<>>, 0), L |-> <<>>, cb |-> <<>>,
     perAccountErrors |-> 0, failedAccts |-> {}, svc |-> "none", out |-> "none",
     dbFailures |-> 0,
     ret |-> SyncResult(FALSE, 0, 0, 0, <<>>, 0)]

LeastFree(pool, used) == CHOOSE x \in pool \ used : \A y \in pool \ used : x <= y

\* existingIds of the store: the bankTransactionId of every local transaction that has one
ExistingIds(txs) == {txs[i].bankTransactionId : i \in {j \in DOMAIN txs : txs[j].bankTransactionId # 0}}

\* the store's onTransaction callback on db: the linked account is looked up
\* and, when there is one, addTransaction is called; `fails`: the local
\* database write of addTransaction throws, after the record entered the list
OnTransaction(db, connId, userId, tx, fails) ==
    LET linked == {a \in accounts : a.bankConnectionId = connId
                                    /\ a.externalAccountId = tx.accountId}
    IN IF linked = {}
       THEN [db |-> db, threw |-> FALSE]
       ELSE LET account == CHOOSE a \in linked : TRUE
                id == LeastFree(BankTxIds, UsedTxIds(db.transactions))
                qid == LeastFree(BankQueueIds, UsedQueueIds(db.syncQueue))
            IN IF fails
               THEN [db |-> [db EXCEPT !.transactions =
                                <<Tx(id, userId, tx.id, account.id, FALSE)>> \o @],
                     threw |-> TRUE]
               ELSE [db |-> AddTransactionTo(db, id, userId, tx.id, account.id, qid),
                     threw |-> FALSE]

\* variant of the dedupe test that passes every element
IsNewTransactionNoDedupe(tx, K) == tx.id = tx.id

\* the dedupe test of the service
IsNewTransaction(tx, K) == tx.id \notin K

\* the inner loop of the service from element k of list: count, dedupe against
\* K, call back; an exception of the callback ends the loop
RECURSIVE ProcessFrom(_, _, _, _, _, _, _)
ProcessFrom(list, k, K, throwAt, connId, userId, acc) ==
    IF k > Len(list) \/ acc.threw
    THEN acc
    ELSE LET tx == list[k]
             seen == [acc EXCEPT !.seen = @ + 1]
         IN IF ~IsNewTransaction(tx, K)
            THEN ProcessFrom(list, k + 1, K, throwAt, connId, userId, seen)
            ELSE LET r == OnTransaction(seen.db, connId, userId, tx, throwAt = k)
                 IN ProcessFrom(list, k + 1, K, throwAt, connId, userId,
                                [seen EXCEPT !.new = @ + 1, !.cb = Append(@, tx),
                                             !.db = r.db, !.threw = r.threw])

\* variant of the outer catch that rethrows to the caller
ServiceCatchRethrows(run) ==
    [run EXCEPT !.svc = "raised", !.pc = "catch"]

\* the outer catch of the service: the error is added and the result returned
ServiceCatch(run) ==
    [run EXCEPT !.result.errors = Append(@, "Sync failed"), !.svc = "returned", !.pc = "update"]

\* the end of the account loop: success iff no error was collected
ServiceReturn(run) ==
    [run EXCEPT !.result.success = (run.result.errors = <<>>), !.svc = "returned",
                !.pc = "update"]

\* variant of the loop that ends at the first account with an error
ServiceNextAccountStopsOnError(run) ==
    IF run.aidx < Len(run.accts) /\ run.result.errors = <<>>
    THEN [run EXCEPT !.aidx = @ + 1]
    ELSE ServiceReturn(run)

\* after account aidx: the next account or the end of the loop
ServiceNextAccount(run) ==
    IF run.aidx < Len(run.accts)
    THEN [run EXCEPT !.aidx = @ + 1]
    ELSE ServiceReturn(run)

\* variant of the invalid branch that records the error and carries on
ServiceInvalidContinues(run) ==
    [run EXCEPT !.result.errors = Append(@, "Connection is no longer valid"),
                !.pc = "accounts"]

\* validateConnection answered false: the error is added and the result
\* returned as it was initialised
ServiceInvalid(run) ==
    [run EXCEPT !.result.errors = Append(@, "Connection is no longer valid"),
                !.svc = "returned", !.pc = "update"]

ConnById(id) == CHOOSE c \in connections : c.id = id

\* syncConnection(id) of the store up to its first await
SyncConnection ==
    /\ bank.pc \in {"idle", "done"}
    /\ bank.passNo < MaxPasses
    /\ \E id \in ConnIds \cup {0} :
          IF ~\E c \in connections : c.id = id
          THEN bank' = [IdleBank EXCEPT !.pc = "done", !.conn = id, !.passNo = bank.passNo + 1,
                            !.out = "returned",
                            !.ret = SyncResult(FALSE, 0, 0, 0, <<"Connection not found">>,
                                               StartStamp(bank.passNo + 1))]
          ELSE bank' = [IdleBank EXCEPT !.pc = "validate", !.conn = id,
                            !.passNo = bank.passNo + 1,
                            !.K = ExistingIds(transactions), !.svc = "running",
                            !.result = SyncResult(FALSE, 0, 0, 0, <<>>,
                                                  StartStamp(bank.passNo + 1))]
    /\ UNCHANGED featureVars
    /\ UNCHANGED <<remote, configured, syncQueue, clock, transactions, remoteWrites,
                   sm, smRuns, st, stRuns, step, connections, accounts>>

\* the service after `await this.validateConnection(...)`
BankValidate ==
    /\ bank.pc = "validate"
    /\ \E outcome \in {"valid", "invalid", "throw"} :
          bank' = CASE outcome = "valid" -> [bank EXCEPT !.pc = "accounts"]
                    [] outcome = "invalid" -> ServiceInvalid(bank)
                    [] outcome = "throw" -> ServiceCatch(bank)
    /\ UNCHANGED featureVars
    /\ UNCHANGED <<remote, configured, syncQueue, clock, transactions, remoteWrites,
                   sm, smRuns, st, stRuns, step, connections, accounts>>

\* the service after `await this.getAccounts(...)`
BankAccounts ==
    /\ bank.pc = "accounts"
    /\ \/ \E n \in 0..MaxAccounts :
             LET run == [bank EXCEPT !.accts = [k \in 1..n |-> k],
                                     !.result.accountsSynced = n]
             IN bank' = IF n = 0 THEN ServiceReturn(run)
                        ELSE [run EXCEPT !.pc = "fetch", !.aidx = 1]
       \/ bank' = ServiceCatch(bank)
    /\ UNCHANGED featureVars
    /\ UNCHANGED <<remote, configured, syncQueue, clock, transactions, remoteWrites,
                   sm, smRuns, st, stRuns, step, connections, accounts>>

\* one turn of the account loop: getTransactions for the account, then the
\* inner loop over what it returned; an exception of either is caught by the
\* catch of the turn and recorded
BankFetch ==
    /\ bank.pc = "fetch"
    /\ Len(transactions) + MaxListLen <= MaxBankTx
    /\ Cardinality(syncQueue) + MaxListLen < MaxBankRows
    /\ LET conn == ConnById(bank.conn)
           account == bank.accts[bank.aidx]
           failed(run) == [run EXCEPT !.result.errors = Append(@, "Failed to sync account"),
                                      !.perAccountErrors = @ + 1,
                                      !.failedAccts = @ \cup {account}]
       IN \/ /\ bank' = ServiceNextAccount(failed(bank))
             /\ UNCHANGED <<syncQueue, clock, transactions, remoteWrites>>
          \/ \E list \in GetTransactionsResults(conn.provider, account) :
               \E throwAt \in 0..Len(list) :
                  LET acc == ProcessFrom(list, 1, bank.K, throwAt, conn.id, conn.userId,
                                         [db |-> Db, seen |-> 0, new |-> 0, cb |-> <<>>,
                                          threw |-> FALSE])
                      run == [bank EXCEPT !.result.transactionsSynced = @ + acc.seen,
                                          !.result.newTransactions = @ + acc.new,
                                          !.L = @ \o list, !.cb = @ \o acc.cb]
                  IN /\ throwAt # 0 => acc.threw
                     /\ SetDb(acc.db)
                     /\ bank' = ServiceNextAccount(IF acc.threw THEN failed(run) ELSE run)
    /\ UNCHANGED featureVars
    /\ UNCHANGED <<remote, configured, sm, smRuns, st, stRuns, step, connections, accounts>>

\* variant of updateConnection that leaves the last-sync timestamp alone
UpdatedConnectionsKeepsStamp(id, status, lastSyncAt, errorMessage) ==
    {IF c.id = id
     THEN [c EXCEPT !.status = status, !.errorMessage = errorMessage]
     ELSE c : c \in connections}

\* updateConnection(id, updates) on the local list
UpdatedConnections(id, status, lastSyncAt, errorMessage) ==
    {IF c.id = id
     THEN [c EXCEPT !.status = status, !.lastSyncAt = lastSyncAt, !.errorMessage = errorMessage]
     ELSE c : c \in connections}

\* the remote half of updateConnection: the update, and a queue row on error
UpdateConnectionRemote(id) ==
    IF configured
    THEN /\ remoteWrites' = remoteWrites \cup {Write("bank_connections", "update", id, RemoteOk)}
         /\ IF RemoteOk
            THEN UNCHANGED <<syncQueue, clock>>
            ELSE /\ syncQueue' = addToSyncQueue(syncQueue,
                                     LeastFree(BankQueueIds, UsedQueueIds(syncQueue)),
                                     "bank_connections", "update", id, clock + 1)
                 /\ clock' = clock + 1
    ELSE UNCHANGED <<remoteWrites, syncQueue, clock>>

\* the store after the service call: the result goes onto the connection and
\* is returned; if the service raised, or the local write of updateConnection
\* throws, the catch block records the error and returns an error result.
\* updateConnection replaces the record in the list before its local write,
\* so the list changes even when that write throws; a throw inside the catch
\* block leaves the store call
BankFinish ==
    /\ bank.pc \in {"update", "catch"}
    /\ Cardinality(syncQueue) < MaxBankRows
    /\ \E dbThrows \in BOOLEAN :
         IF bank.pc = "update" /\ ~dbThrows
         THEN /\ connections' = UpdatedConnections(bank.conn,
                                    IF bank.result.success THEN "active" ELSE "error",
                                    bank.result.lastSyncAt, bank.result.errors)
              /\ UpdateConnectionRemote(bank.conn)
              /\ bank' = [bank EXCEPT !.pc = "done", !.out = "returned", !.ret = bank.result]
         ELSE IF bank.pc = "update"
         THEN /\ connections' = UpdatedConnections(bank.conn,
                                    IF bank.result.success THEN "active" ELSE "error",
                                    bank.result.lastSyncAt, bank.result.errors)
              /\ bank' = [bank EXCEPT !.pc = "catch", !.dbFailures = @ + 1]
              /\ UNCHANGED <<remoteWrites, syncQueue, clock>>
         ELSE IF ~dbThrows
         THEN /\ connections' = UpdatedConnections(bank.conn, "error",
                                    ConnById(bank.conn).lastSyncAt, <<"error">>)
              /\ UpdateConnectionRemote(bank.conn)
              /\ \E at \in {StartStamp(bank.passNo), StartStamp(bank.passNo) + 1} :
                    bank' = [bank EXCEPT !.pc = "done", !.out = "returned",
                                 !.ret = SyncResult(FALSE, 0, 0, 0, <<"error">>, at)]
         ELSE /\ connections' = UpdatedConnections(bank.conn, "error",
                                    ConnById(bank.conn).lastSyncAt, <<"error">>)
              /\ bank' = [bank EXCEPT !.pc = "done", !.out = "raised", !.dbFailures = @ + 1]
              /\ UNCHANGED <<remoteWrites, syncQueue, clock>>
    /\ UNCHANGED featureVars
    /\ UNCHANGED <<remote, configured, transactions, sm, smRuns, st, stRuns, step, accounts>>

\* ------------------------------------------------------------------------
\* MonobankProvider (services/banking/MonobankProvider.ts)
\* ------------------------------------------------------------------------
MIN_REQUEST_INTERVAL == 60000

\* endpoint.includes('/statement/'); the statement path carries the account
\* and the two timestamps after the prefix shown here
IsStatement(endpoint) == endpoint = "/personal/statement/"

\* the provider as constructed. now: Date.now(), which is far beyond one
\* interval when the application runs; calls, method, requested, endpoint,
\* limited, outcome, retryAfter: the last call on the instance;
\* lastStatementAt: time of the last statement request that was sent (0: none);
\* rejected: requests thrown back by the limiter since the last one sent;
\* sentAfter: that number at the time of the last request sent;
\* pass: the last syncConnection pass made through the instance
NewMono ==
    [lastRequestTime |-> 0, now |-> MIN_REQUEST_INTERVAL, calls |-> 0, method |-> "none",
     requested |-> FALSE, endpoint |-> "none", limited |-> FALSE, outcome |-> "none",
     retryAfter |-> 0, lastStatementAt |-> 0, rejected |-> 0, sentAfter |-> 0,
     pass |-> [passes |-> 0, listed |-> FALSE, n |-> 0, at |-> <<>>, accepted |-> {},
               limited |-> {}, errors |-> {}, success |-> FALSE]]

\* variant of the limiter test that lets a call through at the first
\* millisecond of the interval's last third
IsRateLimitedEarlyRelease(m, endpoint) ==
    IsStatement(endpoint) /\ 3 * (m.now - m.lastRequestTime) < 2 * MIN_REQUEST_INTERVAL

\* the test of makeRequest before anything is sent
IsRateLimited(m, endpoint) ==
    IsStatement(endpoint) /\ m.now - m.lastRequestTime < MIN_REQUEST_INTERVAL

\* makeRequest(endpoint, token) on the instance m when the server would
\* answer `response`; outcome: the error class the call ends with, "ok" when
\* it returns. "malformed": status 200 with a body that is not JSON, whose
\* parse error rejects the promise returned from inside the try block
MakeRequest(m, method, endpoint, response) ==
    LET outcome == CASE response = "ok" -> "ok"
                     [] response = "429" -> "RateLimitError"
                     [] response = "401" -> "AuthenticationError"
                     [] response = "malformed" -> "SyntaxError"
                     [] OTHER -> "ConnectionError"
    IN
    IF IsRateLimited(m, endpoint)
    THEN [m EXCEPT !.calls = @ + 1, !.method = method, !.requested = TRUE,
                   !.endpoint = endpoint, !.limited = TRUE, !.outcome = "RateLimitError",
                   !.retryAfter = MIN_REQUEST_INTERVAL - (m.now - m.lastRequestTime),
                   !.rejected = @ + 1]
    ELSE [m EXCEPT !.calls = @ + 1, !.method = method, !.requested = TRUE,
                   !.endpoint = endpoint, !.limited = FALSE,
                   !.lastRequestTime = m.now,
                   !.outcome = outcome,
                   !.retryAfter = IF response = "429" THEN 60000 ELSE 0,
                   !.lastStatementAt = IF IsStatement(endpoint) THEN m.now ELSE @,
                   !.rejected = 0, !.sentAfter = m.rejected]

EngineUnchanged ==
    UNCHANGED <<remote, configured, syncQueue, clock, transactions, remoteWrites,
                sm, smRuns, st, stRuns, step, connections, accounts, bank>>

\* a provider method: hasToken is config.accessToken being set, and a method
\* called without a token ends before makeRequest; response: what the server
\* answers to a request that was sent
MonoCall(method, endpoint, noTokenOutcome) ==
    /\ mono.calls < MaxCalls
    /\ \E hasToken \in BOOLEAN, response \in {"ok", "429", "401", "500", "network", "malformed"} :
          mono' = IF hasToken
                  THEN MakeRequest(mono, method, endpoint, response)
                  ELSE [mono EXCEPT !.calls = @ + 1, !.method = method,
                                    !.requested = FALSE, !.endpoint = "none",
                                    !.limited = FALSE, !.outcome = noTokenOutcome,
                                    !.retryAfter = 0]
    /\ UNCHANGED <<categorized, ledger, plaid, translated, replay, inserted, txstore, overlap, transfer>>
    /\ EngineUnchanged

\* validateConnection: client info; the catch turns every error into false
MonoValidateConnection ==
    MonoCall("validateConnection", "/personal/client-info", "false")

\* getAccounts: client info
MonoGetAccounts ==
    MonoCall("getAccounts", "/personal/client-info", "AuthenticationError")

\* getTransactions: the statement of one account
MonoGetTransactions ==
    MonoCall("getTransactions", "/personal/statement/", "AuthenticationError")

\* setupWebhook
MonoSetupWebhook ==
    MonoCall("setupWebhook", "/personal/webhook", "AuthenticationError")

\* time passes: a third of the interval, or a whole one
MonoTick ==
    /\ \E d \in {MIN_REQUEST_INTERVAL \div 3, MIN_REQUEST_INTERVAL} :
          /\ mono.now + d <= MIN_REQUEST_INTERVAL * (1 + MaxIntervals)
          /\ mono' = [mono EXCEPT !.now = @ + d]
    /\ UNCHANGED <<categorized, ledger, plaid, translated, replay, inserted, txstore, overlap, transfer>>
    /\ EngineUnchanged

\* the provider after each getTransactions call of the loop over the accounts
\* of syncConnection: gaps[i] passes before the call for account i, to which
\* the server would answer responses[i]
RECURSIVE MonoListings(_, _, _)
MonoListings(m, gaps, responses) ==
    IF gaps = <<>>
    THEN <<>>
    ELSE LET after == MakeRequest([m EXCEPT !.now = @ + Head(gaps)], "getTransactions",
                                  "/personal/statement/", Head(responses))
         IN <<after>> \o MonoListings(after, Tail(gaps), Tail(responses))

\* variant of the per-account catch that lets a limiter rejection pass
PassErrorsWithoutLimited(after) ==
    {i \in DOMAIN after : after[i].outcome \notin {"ok", "RateLimitError"}}

\* the accounts whose listing raised: the catch of the loop body records one
\* error for each
PassErrors(after) == {i \in DOMAIN after : after[i].outcome # "ok"}

\* BankingService.syncConnection('monobank', config) with a token: validate,
\* list the accounts, list the transactions of each account; time passes
\* between the calls
MonoSyncPass ==
    /\ mono.pass.passes < MaxPasses
    /\ \E n \in 1..MaxAccounts, wait \in {0, MIN_REQUEST_INTERVAL \div 3},
          valid \in {"ok", "401"}, listing \in {"ok", "500"} :
       \E gaps \in [1..n -> {0, MIN_REQUEST_INTERVAL \div 3, 2 * (MIN_REQUEST_INTERVAL \div 3),
                             MIN_REQUEST_INTERVAL}],
          responses \in [1..n -> {"ok", "500"}] :
          LET validated == MakeRequest(mono, "validateConnection",
                                       "/personal/client-info", valid)
              accounts_ == MakeRequest([validated EXCEPT !.now = @ + wait], "getAccounts",
                                       "/personal/client-info", listing)
              after == MonoListings(accounts_, gaps, responses)
              errors == PassErrors(after)
              idle == [passes |-> mono.pass.passes + 1, listed |-> FALSE, n |-> 0,
                       at |-> <<>>, accepted |-> {}, limited |-> {}, errors |-> {},
                       success |-> FALSE]
          IN mono' =
               IF validated.outcome # "ok"
               THEN [validated EXCEPT !.pass = idle]
               ELSE IF accounts_.outcome # "ok"
               THEN [accounts_ EXCEPT !.pass = idle]
               ELSE [after[n] EXCEPT !.pass =
                        [idle EXCEPT !.listed = TRUE, !.n = n,
                                     !.at = [i \in 1..n |-> after[i].now],
                                     !.accepted = {i \in 1..n : ~after[i].limited},
                                     !.limited = {i \in 1..n :
                                                    /\ after[i].limited
                                                    /\ after[i].outcome = "RateLimitError"},
                                     !.errors = errors,
                                     !.success = (errors = {})]]
    /\ UNCHANGED <<categorized, ledger, plaid, translated, replay, inserted, txstore, overlap, transfer>>
    /\ EngineUnchanged

\* ------------------------------------------------------------------------
\* mccMapping: the static table and autoCategorize (services/banking/mccMapping)
\* ------------------------------------------------------------------------
Mapping(category, type) == [category |-> category, type |-> type]

\* the static table, its codes grouped by the mapping they have
MCC_RANGES ==
    LET foodExpense ==
            {"5411", "5412", "5422", "5441", "5451", "5462", "5499", "5812", "5813", "5814"}
        transportExpense ==
            {"4011", "4111", "4112", "4121", "4131", "4214", "4411", "4457", "4468", "4511",
            "4582", "4722", "4784", "4789", "5511", "5521", "5531", "5532", "5533", "5541",
            "5542", "5551", "5561", "5571", "5592", "5598", "5599", "7511", "7512", "7513",
            "7519", "7523", "7531", "7534", "7535", "7538", "7542", "7549"}
        entertainmentExpense ==
            {"7829", "7832", "7841", "7911", "7922", "7929", "7932", "7933", "7941", "7991",
            "7992", "7993", "7994", "7995", "7996", "7997", "7998", "7999"}
        shoppingExpense ==
            {"5200", "5211", "5231", "5251", "5261", "5271", "5300", "5309", "5310", "5311",
            "5331", "5399", "5611", "5621", "5631", "5641", "5651", "5655", "5661", "5681",
            "5691", "5697", "5698", "5699", "5712", "5713", "5714", "5718", "5719", "5722",
            "5732", "5733", "5734", "5735", "5912", "5921", "5931", "5932", "5933", "5935",
            "5937", "5940", "5941", "5942", "5943", "5944", "5945", "5946", "5947", "5948",
            "5949", "5950", "5960", "5961", "5962", "5963", "5964", "5965", "5966", "5967",
            "5968", "5969", "5970", "5971", "5972", "5973", "5975", "5976", "5977", "5978",
            "5983", "5992", "5993", "5994", "5995", "5996", "5997", "5998", "5999"}
        healthExpense ==
            {"5047", "5122", "8011", "8021", "8031", "8041", "8042", "8043", "8049", "8050",
            "8062", "8071", "8099"}
        utilitiesExpense ==
            {"4812", "4813", "4814", "4815", "4816", "4821", "4829", "4899", "4900"}
        educationExpense ==
            {"8211", "8220", "8241", "8244", "8249", "8299"}
        otherIncome ==
            {"6010", "6011", "6012", "6051", "6300"}
        investmentsIncome ==
            {"6211"}
        keys == UNION {foodExpense, transportExpense, entertainmentExpense,
                       shoppingExpense, healthExpense, utilitiesExpense,
                       educationExpense, otherIncome, investmentsIncome}
    IN [code \in keys |->
       CASE code \in foodExpense -> Mapping("food", "expense")
         [] code \in transportExpense -> Mapping("transport", "expense")
         [] code \in entertainmentExpense -> Mapping("entertainment", "expense")
         [] code \in shoppingExpense -> Mapping("shopping", "expense")
         [] code \in healthExpense -> Mapping("health", "expense")
         [] code \in utilitiesExpense -> Mapping("utilities", "expense")
         [] code \in educationExpense -> Mapping("education", "expense")
         [] code \in otherIncome -> Mapping("other", "income")
         [] code \in investmentsIncome -> Mapping("investments", "income")]

\* the table codes as numbers
MccNumbers ==
    {5411, 5412, 5422, 5441, 5451, 5462, 5499, 5812, 5813, 5814, 4011, 4111, 4112, 4121,
     4131, 4214, 4411, 4457, 4468, 4511, 4582, 4722, 4784, 4789, 5511, 5521, 5531, 5532,
     5533, 5541, 5542, 5551, 5561, 5571, 5592, 5598, 5599, 7511, 7512, 7513, 7519, 7523,
     7531, 7534, 7535, 7538, 7542, 7549, 7829, 7832, 7841, 7911, 7922, 7929, 7932, 7933,
     7941, 7991, 7992, 7993, 7994, 7995, 7996, 7997, 7998, 7999, 5200, 5211, 5231, 5251,
     5261, 5271, 5300, 5309, 5310, 5311, 5331, 5399, 5611, 5621, 5631, 5641, 5651, 5655,
     5661, 5681, 5691, 5697, 5698, 5699, 5712, 5713, 5714, 5718, 5719, 5722, 5732, 5733,
     5734, 5735, 5912, 5921, 5931, 5932, 5933, 5935, 5937, 5940, 5941, 5942, 5943, 5944,
     5945, 5946, 5947, 5948, 5949, 5950, 5960, 5961, 5962, 5963, 5964, 5965, 5966, 5967,
     5968, 5969, 5970, 5971, 5972, 5973, 5975, 5976, 5977, 5978, 5983, 5992, 5993, 5994,
     5995, 5996, 5997, 5998, 5999, 5047, 5122, 8011, 8021, 8031, 8041, 8042, 8043, 8049,
     8050, 8062, 8071, 8099, 4812, 4813, 4814, 4815, 4816, 4821, 4829, 4899, 4900, 8211,
     8220, 8241, 8244, 8249, 8299, 6010, 6011, 6012, 6051, 6300, 6211}

\* JavaScript values of the arguments
JSStr(v) == [type |-> "string", val |-> v]
JSUndefined == [type |-> "undefined", val |-> 0]

\* the truthiness test of `if (x)`
Truthy(v) ==
    CASE v.type = "undefined" -> FALSE
      [] v.type = "number" -> v.val # 0
      [] v.type = "string" -> Len(v.val) # 0
      [] OTHER -> v.val

\* String(n) of a natural number
RECURSIVE NatToString(_)
NatToString(n) ==
    LET digit == <<"0", "1", "2", "3", "4", "5", "6", "7", "8", "9">>
    IN IF n < 10 THEN digit[n + 1] ELSE NatToString(n \div 10) \o digit[(n % 10) + 1]

\* s.padStart(4, '0')
RECURSIVE PadStart(_)
PadStart(s) == IF Len(s) >= 4 THEN s ELSE PadStart("0" \o s)

\* `null`
NoMapping == Mapping("null", "null")

\* variant of the lookup that takes the code as it is given, without String()
getCategoryFromMCCAsGiven(mccCode) ==
    IF mccCode.type = "string" /\ mccCode.val \in DOMAIN MCC_RANGES
    THEN MCC_RANGES[mccCode.val]
    ELSE NoMapping

getCategoryFromMCC(mccCode) ==
    LET str == IF mccCode.type = "number" THEN NatToString(mccCode.val) ELSE mccCode.val
        code == PadStart(str)
    IN IF code \in DOMAIN MCC_RANGES THEN MCC_RANGES[code] ELSE NoMapping

\* descriptions are sequences of words; the lower-case form of a word
ToLowerCase(w) ==
    CASE w = "Uber" -> "uber"
      [] w = "Pizza" -> "pizza"
      [] OTHER -> w

\* the keyword classifiers in the order they are tried, with the Latin-script
\* keywords that are whole words
Classifiers ==
    <<[keywords |-> {"restaurant", "cafe", "coffee", "food", "grocery", "supermarket",
                     "silpo", "atb", "novus", "fozzy", "mcdonalds", "kfc", "subway",
                     "starbucks", "pizza", "burger"},
       mapping |-> Mapping("food", "expense")],
      [keywords |-> {"uber", "bolt", "taxi", "metro", "bus", "train", "fuel", "gas",
                     "parking", "uklon", "ukrzal", "wog", "okko", "shell"},
       mapping |-> Mapping("transport", "expense")],
      [keywords |-> {"cinema", "movie", "netflix", "spotify", "youtube", "steam", "game",
                     "gaming", "concert", "theater", "museum", "multiplex", "imax"},
       mapping |-> Mapping("entertainment", "expense")],
      [keywords |-> {"amazon", "rozetka", "prom", "aliexpress", "ebay", "shop", "store",
                     "mall", "purchase", "zara", "h&m", "mango", "reserved", "comfy", "eldorado",
                     "foxtrot"},
       mapping |-> Mapping("shopping", "expense")],
      [keywords |-> {"pharmacy", "hospital", "doctor", "medical", "clinic", "health"},
       mapping |-> Mapping("health", "expense")],
      [keywords |-> {"utility", "electricity", "water", "gas", "internet", "phone",
                     "kyivstar", "vodafone", "lifecell"},
       mapping |-> Mapping("utilities", "expense")],
      [keywords |-> {"university", "school", "course", "education", "udemy", "coursera",
                     "skillshare"},
       mapping |-> Mapping("education", "expense")],
      [keywords |-> {"salary", "income", "transfer", "refund", "cashback"},
       mapping |-> Mapping("salary", "income")]>>

\* the classifiers that match a description of words:
\* /\b(k1|k2|...)\b/i.test(desc)
MatchingClassifiers(desc) ==
    {k \in DOMAIN Classifiers :
        \E i \in DOMAIN desc : ToLowerCase(desc[i]) \in Classifiers[k].keywords}

\* the chain of keyword tests
ClassifyDescription(desc) ==
    LET M == MatchingClassifiers(desc)
    IN IF M = {} THEN NoMapping
       ELSE Classifiers[CHOOSE k \in M : \A j \in M : k <= j].mapping

autoCategorize(mccCode, description, amount) ==
    LET mapping == IF Truthy(mccCode) THEN getCategoryFromMCC(mccCode) ELSE NoMapping
        byWords == IF Truthy(description) THEN ClassifyDescription(description.val)
                   ELSE NoMapping
    IN IF mapping # NoMapping THEN mapping
       ELSE IF Truthy(amount) /\ amount.val > 0 THEN Mapping("other", "income")
       ELSE IF byWords # NoMapping THEN byWords
       ELSE Mapping("other", "expense")

\* no call of autoCategorize yet
NotCategorized ==
    [mccCode |-> JSUndefined, description |-> JSUndefined, amount |-> JSUndefined,
     done |-> FALSE, result |-> NoMapping]

\* autoCategorize is applied to the arguments drawn at the start
Categorize ==
    /\ ~categorized.done
    /\ categorized' = [categorized EXCEPT
                          !.done = TRUE,
                          !.result = autoCategorize(categorized.mccCode,
                                                   categorized.description,
                                                   categorized.amount)]
    /\ UNCHANGED <<mono, ledger, plaid, translated, replay, inserted, txstore, overlap, transfer>>
    /\ EngineUnchanged

\* ------------------------------------------------------------------------
\* The accounts store, the transactions store and the remote tables behind
\* them, with the columns the balance accounting reads
\* ------------------------------------------------------------------------
\* the types and amounts a caller gives a transaction
TransactionInputs == [type : {"income", "expense"}, amount : {20, 50}]
\* account_id NULL / accountId undefined
NoAccount == 0

\* a failed remote write: the table, the operation and the record it was for
FailedWrite(tableName, operation, recordId) ==
    [tableName |-> tableName, operation |-> operation, recordId |-> recordId]

\* both stores and both remote tables empty. opening: the balance each account
\* was created with; failed: the remote writes that reported an error, in
\* order; made: the ids handed out so far
NewLedger ==
    [accounts |-> {}, transactions |-> {},
     remoteAccounts |-> {}, remoteTransactions |-> {},
     opening |-> [i \in 1..MaxLedgerAccounts |-> 0],
     failed |-> <<>>, accountsMade |-> 0, transactionsMade |-> 0,
     ops |-> 0, last |-> "none"]

RowsById(rows, id) == {r \in rows : r.id = id}
ReplaceRow(rows, id, new) == (rows \ RowsById(rows, id)) \cup {new}

\* CASE WHEN type = 'income' THEN amount ELSE -amount END
SignedAmount(type, amount) == IF type = "income" THEN amount ELSE -amount

\* the row trigger on the remote transactions table
update_account_balance(rows, tgOp, old, new) ==
    LET \* UPDATE accounts SET balance = balance + delta WHERE id = accountId
        AddToBalance(rs, accountId, delta) ==
            {IF r.id = accountId THEN [r EXCEPT !.balance = @ + delta] ELSE r : r \in rs}
        applied(rs) ==
            IF new.accountId # NoAccount
            THEN AddToBalance(rs, new.accountId, SignedAmount(new.type, new.amount))
            ELSE rs
        reversed(rs) ==
            IF old.accountId # NoAccount
            THEN AddToBalance(rs, old.accountId, -SignedAmount(old.type, old.amount))
            ELSE rs
    IN CASE tgOp = "INSERT" -> applied(rows)
         [] tgOp = "DELETE" -> reversed(rows)
         [] tgOp = "UPDATE" -> applied(reversed(rows))

\* the end of a store action that attempted one remote write for one record:
\* the write is logged and, when it reported an error, one queue row is added
AfterRemoteWrite(tableName, operation, recordId) ==
    LET enqueues == configured /\ ~RemoteOk
    IN /\ \E qid \in NewQueueIds(enqueues) :
             syncQueue' = IF enqueues
                          THEN addToSyncQueue(syncQueue, qid, tableName, operation,
                                              recordId, clock + 1)
                          ELSE syncQueue
       /\ clock' = IF enqueues THEN clock + 1 ELSE clock
       /\ remoteWrites' = IF configured
                          THEN remoteWrites \cup {Write(tableName, operation, recordId, RemoteOk)}
                          ELSE remoteWrites

\* the ledger after a store action: its remote tables are those given when
\* the remote write was acknowledged, and the failed writes are noted
LedgerAfter(l, call, remoteAccounts, remoteTransactions, writes) ==
    [l EXCEPT !.ops = @ + 1,
              !.last = call,
              !.remoteAccounts = IF configured /\ RemoteOk THEN remoteAccounts ELSE @,
              !.remoteTransactions =
                  IF configured /\ RemoteOk THEN remoteTransactions ELSE @,
              !.failed = IF configured /\ ~RemoteOk THEN @ \o writes ELSE @]

\* what the ledger actions leave alone
LedgerFrame ==
    /\ step' = NoStep
    /\ UNCHANGED <<mono, categorized, plaid, translated, replay, inserted, txstore, overlap, transfer>>
    /\ UNCHANGED <<remote, configured, transactions, sm, smRuns, st, stRuns,
                   connections, accounts, bank>>

\* useAccountsStore.addAccount
AddAccount ==
    /\ ledger.ops < MaxStoreOps
    /\ ledger.accountsMade < MaxLedgerAccounts
    /\ \E name \in {"Wallet", "Card"}, type \in {"cash", "credit"}, balance \in {100} :
          LET id == ledger.accountsMade + 1
              newAccount == [id |-> id, userId |-> "u1", name |-> name, type |-> type,
                             balance |-> balance, isDefault |-> FALSE]
              l == [ledger EXCEPT !.accounts = @ \cup {newAccount},
                                  !.accountsMade = id,
                                  !.opening[id] = balance]
          IN /\ ledger' = LedgerAfter(l, "addAccount",
                                      l.remoteAccounts \cup {newAccount},
                                      l.remoteTransactions,
                                      <<FailedWrite("accounts", "insert", id)>>)
             /\ AfterRemoteWrite("accounts", "insert", id)
    /\ LedgerFrame

\* useAccountsStore.updateAccount with a new name
UpdateAccount ==
    /\ ledger.ops < MaxStoreOps
    /\ \E account \in ledger.accounts, name \in {"Wallet", "Card"} :
          LET updatedAccount == [account EXCEPT !.name = name]
              l == [ledger EXCEPT !.accounts = ReplaceRow(@, account.id, updatedAccount)]
              updatedRows ==
                  {IF r.id = account.id
                   THEN [r EXCEPT !.name = updatedAccount.name,
                                  !.type = updatedAccount.type,
                                  !.balance = updatedAccount.balance,
                                  !.isDefault = updatedAccount.isDefault]
                   ELSE r : r \in l.remoteAccounts}
          IN /\ name # account.name
             /\ ledger' = LedgerAfter(l, "updateAccount", updatedRows,
                                      l.remoteTransactions,
                                      <<FailedWrite("accounts", "update", account.id)>>)
             /\ AfterRemoteWrite("accounts", "update", account.id)
    /\ LedgerFrame

\* useAccountsStore.deleteAccount; the remote transactions of a deleted
\* account keep their rows with account_id NULL
DeleteAccount ==
    /\ ledger.ops < MaxStoreOps
    /\ \E account \in ledger.accounts :
          LET l == [ledger EXCEPT !.accounts = @ \ {account}]
              unlinked ==
                  {IF t.accountId = account.id /\ RowsById(l.remoteAccounts, account.id) # {}
                   THEN [t EXCEPT !.accountId = NoAccount]
                   ELSE t : t \in l.remoteTransactions}
          IN /\ ledger' = LedgerAfter(l, "deleteAccount",
                                      l.remoteAccounts \ RowsById(l.remoteAccounts, account.id),
                                      unlinked,
                                      <<FailedWrite("accounts", "delete", account.id)>>)
             /\ AfterRemoteWrite("accounts", "delete", account.id)
    /\ LedgerFrame

\* useAccountsStore.setDefaultAccount: two remote updates whose results are
\* not read, the first for every account of the user, the second for id
SetDefaultAccount ==
    /\ ledger.ops < MaxStoreOps
    /\ \E account \in ledger.accounts :
          LET userId == account.userId
              updatedAccounts ==
                  {[a EXCEPT !.isDefault = IF a.userId = userId THEN a.id = account.id
                                           ELSE a.isDefault] : a \in ledger.accounts}
              l == [ledger EXCEPT !.accounts = updatedAccounts]
              cleared == {IF r.userId = userId THEN [r EXCEPT !.isDefault = FALSE] ELSE r :
                             r \in l.remoteAccounts}
              marked == {IF r.id = account.id THEN [r EXCEPT !.isDefault = TRUE] ELSE r :
                            r \in cleared}
              ofUser == SortedSeq({a.id : a \in {x \in ledger.accounts : x.userId = userId}})
              writes == [i \in 1..Len(ofUser) |-> FailedWrite("accounts", "update", ofUser[i])]
                            \o <<FailedWrite("accounts", "update", account.id)>>
          IN /\ ledger' = LedgerAfter(l, "setDefaultAccount", marked,
                                      l.remoteTransactions, writes)
             /\ remoteWrites' =
                    IF configured
                    THEN remoteWrites \cup
                             {Write("accounts", "update", writes[i].recordId, RemoteOk) :
                                  i \in DOMAIN writes}
                    ELSE remoteWrites
    /\ UNCHANGED <<syncQueue, clock>>
    /\ LedgerFrame

\* useAccountsStore.loadAccounts: the remote rows of the user replace the
\* list when the query succeeds, otherwise the local rows are kept
LoadAccounts ==
    /\ ledger.last # "loadAccounts"
    /\ ledger' = [ledger EXCEPT
                     !.last = "loadAccounts",
                     !.accounts = IF configured /\ RemoteOk
                                  THEN {r \in ledger.remoteAccounts : r.userId = "u1"}
                                  ELSE @]
    /\ UNCHANGED <<syncQueue, clock, remoteWrites>>
    /\ LedgerFrame

\* the accounts a new or updated transaction can be linked to
AccountChoices == {NoAccount} \cup {a.id : a \in ledger.accounts}

\* useTransactionsStore.addTransaction with an owner, an account, a type and
\* an amount
AddTransactionToAccount ==
    /\ ledger.ops < MaxStoreOps
    /\ ledger.transactionsMade < MaxLedgerTx
    /\ \E accountId \in AccountChoices, data \in TransactionInputs :
          LET id == ledger.transactionsMade + 1
              newTransaction == [id |-> id, userId |-> "u1", accountId |-> accountId,
                                 type |-> data.type, amount |-> data.amount]
              l == [ledger EXCEPT !.transactions = @ \cup {newTransaction},
                                  !.transactionsMade = id]
          IN /\ ledger' = LedgerAfter(l, "addTransaction",
                                      update_account_balance(l.remoteAccounts, "INSERT",
                                                             newTransaction, newTransaction),
                                      l.remoteTransactions \cup {newTransaction},
                                      <<FailedWrite("transactions", "insert", id)>>)
             /\ AfterRemoteWrite("transactions", "insert", id)
    /\ LedgerFrame

\* useTransactionsStore.updateTransaction: the remote update changes the row
\* with this id, if there is one, and fires the trigger for it
UpdateTransaction ==
    /\ ledger.ops < MaxStoreOps
    /\ \E transaction \in ledger.transactions, accountId \in AccountChoices,
          updates \in TransactionInputs :
          LET updatedTransaction == [transaction EXCEPT !.accountId = accountId,
                                                        !.type = updates.type,
                                                        !.amount = updates.amount]
              l == [ledger EXCEPT
                       !.transactions = ReplaceRow(@, transaction.id, updatedTransaction)]
              olds == RowsById(l.remoteTransactions, transaction.id)
              old == CHOOSE r \in olds : TRUE
              new == [old EXCEPT !.accountId = accountId, !.type = updates.type,
                                 !.amount = updates.amount]
          IN /\ updatedTransaction # transaction
             /\ ledger' = LedgerAfter(l, "updateTransaction",
                                      IF olds = {} THEN l.remoteAccounts
                                      ELSE update_account_balance(l.remoteAccounts, "UPDATE",
                                                                  old, new),
                                      IF olds = {} THEN l.remoteTransactions
                                      ELSE ReplaceRow(l.remoteTransactions, transaction.id, new),
                                      <<FailedWrite("transactions", "update", transaction.id)>>)
             /\ AfterRemoteWrite("transactions", "update", transaction.id)
    /\ LedgerFrame

\* useTransactionsStore.deleteTransaction
DeleteTransaction ==
    /\ ledger.ops < MaxStoreOps
    /\ \E transaction \in ledger.transactions :
          LET l == [ledger EXCEPT !.transactions = @ \ {transaction}]
              olds == RowsById(l.remoteTransactions, transaction.id)
              old == CHOOSE r \in olds : TRUE
          IN /\ ledger' = LedgerAfter(l, "deleteTransaction",
                                      IF olds = {} THEN l.remoteAccounts
                                      ELSE update_account_balance(l.remoteAccounts, "DELETE",
                                                                  old, old),
                                      l.remoteTransactions \ olds,
                                      <<FailedWrite("transactions", "delete", transaction.id)>>)
             /\ AfterRemoteWrite("transactions", "delete", transaction.id)
    /\ LedgerFrame

\* ------------------------------------------------------------------------
\* Connecting and disconnecting a bank (useBankConnectionsStore)
\* ------------------------------------------------------------------------
\* the store actions called for the records ids, one after the other, each
\* with one remote write: the writes are logged and, when the remote store
\* reports errors, one queue row per record is added
RemoteWritesFor(db, tableName, operation, ids) ==
    LET free == SortedSeq(BankQueueIds \ UsedQueueIds(db.syncQueue))
        enqueues == configured /\ ~RemoteOk
    IN [db EXCEPT
          !.remoteWrites =
              IF configured
              THEN @ \cup {Write(tableName, operation, ids[i], RemoteOk) : i \in DOMAIN ids}
              ELSE @,
          !.syncQueue =
              IF enqueues
              THEN @ \cup {Row(free[i], tableName, operation, ids[i], JSBool(FALSE),
                               db.clock + i) : i \in DOMAIN ids}
              ELSE @,
          !.clock = IF enqueues THEN @ + Len(ids) ELSE @]

\* what connectBank and disconnectBank leave alone
ConnectFrame ==
    /\ UNCHANGED featureVars
    /\ UNCHANGED <<remote, configured, sm, smRuns, st, stRuns, bank>>

\* connectBank: the provider's connect, addConnection, the provider's
\* getAccounts, one addAccount per bank account. connectFails and
\* getAccountsFails: the provider call raises
ConnectBank ==
    /\ Cardinality(syncQueue) <= MaxQueue
    /\ Cardinality(syncQueue) + 1 + MaxAccounts <= MaxBankRows
    /\ \E id \in ConnIds \ {c.id : c \in connections}, provider \in Providers,
          connectFails \in BOOLEAN, getAccountsFails \in BOOLEAN,
          bankAccounts \in SUBSET ExtAccounts :
          LET connected == RemoteWritesFor(Db, "bank_connections", "insert", <<id>>)
              imported == SortedSeq({LocalAccount(id, a).id : a \in bankAccounts})
          IN IF connectFails
             THEN /\ UNCHANGED <<connections, accounts, syncQueue, clock, remoteWrites,
                                 transactions>>
                  /\ step' = [NoStep EXCEPT !.call = "connectBank", !.done = "threw"]
             ELSE /\ connections' =
                         connections \cup {Conn(id, "u1", provider, "active", 0, <<>>)}
                  /\ IF getAccountsFails
                     THEN /\ SetDb(connected)
                          /\ UNCHANGED accounts
                          /\ step' = [NoStep EXCEPT !.call = "connectBank",
                                                    !.done = "threw"]
                     ELSE /\ SetDb(RemoteWritesFor(connected, "accounts", "insert",
                                                   imported))
                          /\ accounts' =
                                 accounts \cup {LocalAccount(id, a) : a \in bankAccounts}
                          /\ step' = [NoStep EXCEPT !.call = "connectBank",
                                                    !.done = "returned",
                                                    !.items = imported]
    /\ ConnectFrame

\* variant that takes no account to be linked
LinkedAccountsNone(id) == {a \in accounts : a.bankConnectionId = id /\ a.id # a.id}

\* accountsStore.accounts.filter((a) => a.bankConnectionId === id)
LinkedAccounts(id) == {a \in accounts : a.bankConnectionId = id}

\* disconnectBank of an existing connection: the provider's disconnect, whose
\* error is swallowed, deleteAccount for every linked account, then
\* removeConnection. threwAt: the local delete that rejects (0: none), which
\* happens after the record was taken out of the list and ends the call
DisconnectBank ==
    /\ Cardinality(syncQueue) <= MaxQueue
    /\ Cardinality(syncQueue) + 1 + MaxAccounts <= MaxBankRows
    /\ \E connection \in connections, disconnectFails \in BOOLEAN :
          LET linked == SortedSeq({a.id : a \in LinkedAccounts(connection.id)})
          IN \E threwAt \in 0..(Len(linked) + 1) :
                LET n == IF threwAt = 0 THEN Len(linked) ELSE threwAt
                    gone == {linked[i] : i \in {j \in DOMAIN linked : j <= n}}
                    written == IF threwAt = 0 THEN linked ELSE SubSeq(linked, 1, threwAt - 1)
                    deleted == RemoteWritesFor(Db, "accounts", "delete", written)
                IN /\ accounts' = {a \in accounts : a.id \notin gone}
                   /\ connections' = IF threwAt = 0 \/ threwAt = Len(linked) + 1
                                      THEN connections \ {connection}
                                      ELSE connections
                   /\ SetDb(IF threwAt = 0
                            THEN RemoteWritesFor(deleted, "bank_connections", "delete",
                                                 <<connection.id>>)
                            ELSE deleted)
                   /\ step' = [NoStep EXCEPT
                                  !.call = "disconnectBank",
                                  !.done = IF threwAt = 0 THEN "returned" ELSE "threw",
                                  !.items = linked]
    /\ ConnectFrame

\* ------------------------------------------------------------------------
\* The loop of PlaidProvider.getTransactions, one request at a time
\* ------------------------------------------------------------------------
\* no call yet. cursor 0: undefined. cursors: the cursor sent with each
\* request; served: the pages received; nexts: their next_cursor
NewPlaid ==
    [pc |-> "idle", accountId |-> 0, hasMore |-> TRUE, cursor |-> 0,
     allTransactions |-> <<>>, cursors |-> <<>>, served |-> <<>>, nexts |-> <<>>,
     result |-> <<>>]

\* one turn of `while (hasMore)`: the request carries the cursor, the
\* response is pushed and its has_more and next_cursor are kept. The first
\* turn is the start of the call for an account; the server numbers its
\* cursors
PlaidRequest ==
    /\ plaid.pc \in {"idle", "loop"}
    /\ plaid.hasMore
    /\ Len(plaid.served) < MaxSyncPages
    /\ \E accountId \in ExtAccounts, response \in PlaidPage, has_more \in BOOLEAN :
          /\ plaid.pc = "loop" => accountId = plaid.accountId
          /\ plaid' = [plaid EXCEPT
                          !.pc = "loop",
                          !.accountId = accountId,
                          !.cursors = Append(@, plaid.cursor),
                          !.served = Append(@, response),
                          !.nexts = Append(@, Len(plaid.served) + 1),
                          !.allTransactions = @ \o response.added \o response.modified,
                          !.hasMore = has_more,
                          !.cursor = Len(plaid.served) + 1]
    /\ UNCHANGED <<mono, categorized, ledger, translated, replay, inserted, txstore, overlap, transfer>>
    /\ EngineUnchanged

\* the loop is left: filter by account and date, map, return
PlaidFilter ==
    /\ plaid.pc = "loop"
    /\ ~plaid.hasMore
    /\ plaid' = [plaid EXCEPT
                    !.pc = "done",
                    !.result = PlaidGetTransactions(
                                   <<[added |-> plaid.allTransactions, modified |-> <<>>]>>,
                                   plaid.accountId)]
    /\ UNCHANGED <<mono, categorized, ledger, translated, replay, inserted, txstore, overlap, transfer>>
    /\ EngineUnchanged

\* ------------------------------------------------------------------------
\* The field-name translation of queued payloads (transformToSnakeCase)
\* ------------------------------------------------------------------------
\* the keys of the records the stores put into queue payloads, each key a
\* sequence of characters
InternalKeys ==
    [transactions |->
         {<<"i", "d">>, <<"u", "s", "e", "r", "I", "d">>, <<"t", "y", "p", "e">>,
          <<"a", "m", "o", "u", "n", "t">>, <<"c", "a", "t", "e", "g", "o", "r", "y">>,
          <<"d", "e", "s", "c", "r", "i", "p", "t", "i", "o", "n">>,
          <<"d", "a", "t", "e">>, <<"c", "r", "e", "a", "t", "e", "d", "A", "t">>,
          <<"a", "c", "c", "o", "u", "n", "t", "I", "d">>,
          <<"m", "c", "c", "C", "o", "d", "e">>,
          <<"b", "a", "n", "k", "T", "r", "a", "n", "s", "a", "c", "t", "i", "o", "n", "I", "d">>,
          <<"i", "s", "S", "y", "n", "c", "e", "d">>,
          <<"u", "p", "d", "a", "t", "e", "d", "A", "t">>},
     accounts |->
         {<<"i", "d">>, <<"u", "s", "e", "r", "I", "d">>, <<"n", "a", "m", "e">>,
          <<"t", "y", "p", "e">>, <<"c", "u", "r", "r", "e", "n", "c", "y">>,
          <<"b", "a", "l", "a", "n", "c", "e">>, <<"i", "c", "o", "n">>,
          <<"c", "o", "l", "o", "r">>, <<"i", "s", "D", "e", "f", "a", "u", "l", "t">>,
          <<"b", "a", "n", "k", "C", "o", "n", "n", "e", "c", "t", "i", "o", "n", "I", "d">>,
          <<"e", "x", "t", "e", "r", "n", "a", "l", "A", "c", "c", "o", "u", "n", "t", "I", "d">>,
          <<"c", "r", "e", "a", "t", "e", "d", "A", "t">>,
          <<"u", "p", "d", "a", "t", "e", "d", "A", "t">>},
     bank_connections |->
         {<<"i", "d">>, <<"u", "s", "e", "r", "I", "d">>,
          <<"p", "r", "o", "v", "i", "d", "e", "r">>,
          <<"a", "c", "c", "e", "s", "s", "T", "o", "k", "e", "n">>,
          <<"r", "e", "f", "r", "e", "s", "h", "T", "o", "k", "e", "n">>,
          <<"i", "n", "s", "t", "i", "t", "u", "t", "i", "o", "n", "I", "d">>,
          <<"i", "n", "s", "t", "i", "t", "u", "t", "i", "o", "n", "N", "a", "m", "e">>,
          <<"s", "t", "a", "t", "u", "s">>,
          <<"l", "a", "s", "t", "S", "y", "n", "c", "A", "t">>,
          <<"e", "r", "r", "o", "r", "M", "e", "s", "s", "a", "g", "e">>,
          <<"c", "r", "e", "a", "t", "e", "d", "A", "t">>,
          <<"u", "p", "d", "a", "t", "e", "d", "A", "t">>}]

\* letter.toLowerCase() for the letters /[A-Z]/ matches
ToLowerCaseLetter ==
        [A |-> "a", B |-> "b", C |-> "c", D |-> "d", E |-> "e", F |-> "f", G |->
         "g", H |-> "h", I |-> "i", J |-> "j", K |-> "k", L |-> "l", M |-> "m",
         N |-> "n", O |-> "o", P |-> "p", Q |-> "q", R |-> "r", S |-> "s", T |->
         "t", U |-> "u", V |-> "v", W |-> "w", X |-> "x", Y |-> "y", Z |-> "z"]

\* key.replace(/[A-Z]/g, (letter) => `_${letter.toLowerCase()}`)
RECURSIVE SnakeKey(_)
SnakeKey(key) ==
    IF key = <<>> THEN <<>>
    ELSE LET letter == Head(key)
         IN (IF letter \in DOMAIN ToLowerCaseLetter
             THEN <<"_", ToLowerCaseLetter[letter]>>
             ELSE <<letter>>) \o SnakeKey(Tail(key))

\* variant that lower-cases the capitals without the underscore
transformToLowerCase(keys) ==
    {[i \in DOMAIN key |->
         IF key[i] \in DOMAIN ToLowerCaseLetter THEN ToLowerCaseLetter[key[i]] ELSE key[i]] :
        key \in keys}

\* the keys of transformToSnakeCase(obj), for the keys of obj
transformToSnakeCase(keys) == {SnakeKey(key) : key \in keys}

\* a remote column name as the loaders name it in an internal record
\* (user_id as userId): the letter after an underscore is a capital
RECURSIVE CamelKey(_)
CamelKey(column) ==
    IF column = <<>> THEN <<>>
    ELSE IF Head(column) = "_" /\ Len(column) >= 2
              /\ \E L \in DOMAIN ToLowerCaseLetter : ToLowerCaseLetter[L] = column[2]
         THEN <<CHOOSE L \in DOMAIN ToLowerCaseLetter : ToLowerCaseLetter[L] = column[2]>>
                  \o CamelKey(Tail(Tail(column)))
         ELSE <<Head(column)>> \o CamelKey(Tail(column))

\* a payload is translated
Translate ==
    /\ ~translated.done
    /\ translated' = [translated EXCEPT !.done = TRUE,
                                        !.result = transformToSnakeCase(translated.obj)]
    /\ UNCHANGED <<mono, categorized, ledger, plaid, replay, inserted, txstore, overlap, transfer>>
    /\ EngineUnchanged

\* ------------------------------------------------------------------------
\* One transaction mutated through useTransactionsStore, its queue rows with
\* their payloads, and the remote row the replay of SyncManager.sync leaves.
\* The queue rows carry the key the listing queries for (synced: 0). The
\* payload keys kept here, id and amount, are their own column names.
\* ------------------------------------------------------------------------
\* local, remoteRows: the record and its remote row, as functions from field
\* to value; direct: a remote write was acknowledged while rows were pending;
\* drained: the last action was a pass of sync()
NewReplay ==
    [local |-> {}, remoteRows |-> {}, queue |-> {}, made |-> FALSE, mutations |-> 0,
     direct |-> FALSE, drained |-> FALSE, outcomes |-> <<>>]

\* supabase.from('transactions') insert / update(...).eq('id', id) /
\* delete().eq('id', id) applied to the remote rows; error: what the result
\* object reports (an insert of an existing primary key is refused; an
\* update or delete that matches no row is not an error)
RemoteApply(rows, operation, recordId, payload) ==
    LET hit == {r \in rows : r["id"] = recordId}
    IN CASE ~RemoteOk -> [rows |-> rows, error |-> TRUE]
         [] operation = "insert" ->
                IF hit # {} THEN [rows |-> rows, error |-> TRUE]
                ELSE [rows |-> rows \cup {payload}, error |-> FALSE]
         [] operation = "update" ->
                [rows |-> (rows \ hit) \cup
                            {[k \in DOMAIN r |-> IF k \in DOMAIN payload THEN payload[k]
                                                 ELSE r[k]] : r \in hit},
                 error |-> FALSE]
         [] operation = "delete" -> [rows |-> rows \ hit, error |-> FALSE]

\* the end of addTransaction, updateTransaction and deleteTransaction: the
\* direct remote write and, when it reports an error, addToSyncQueue with
\* the payload the action passes (a random id, the creation time)
ReplayAfter(r, operation, direct, payload) ==
    LET written == RemoteApply(r.remoteRows, operation, 1, direct)
        pending == {x \in r.queue : x.synced = JSNum(0)}
        m == [r EXCEPT !.mutations = @ + 1, !.drained = FALSE, !.outcomes = <<>>]
    IN /\ r.mutations < MaxMutations
       /\ IF ~configured
          THEN replay' = m
          ELSE IF ~written.error
          THEN replay' = [m EXCEPT !.remoteRows = written.rows,
                                   !.direct = @ \/ pending # {}]
          ELSE \E id \in (1..MaxMutations) \ {x.id : x \in r.queue} :
                  replay' = [m EXCEPT !.queue = @ \cup
                               {[id |-> id, tableName |-> "transactions",
                                 operation |-> operation, recordId |-> 1,
                                 payload |-> payload, synced |-> JSNum(0),
                                 createdAt |-> r.mutations + 1]}]
       /\ UNCHANGED <<mono, categorized, ledger, plaid, translated, inserted, txstore, overlap, transfer>>
       /\ EngineUnchanged

\* addTransaction: the payload queued is the whole new record
ReplayAddTransaction ==
    /\ ~replay.made
    /\ \E amount \in {20, 50} :
          LET newTransaction == [k \in {"id", "amount"} |-> IF k = "id" THEN 1 ELSE amount]
          IN ReplayAfter([replay EXCEPT !.local = {newTransaction}, !.made = TRUE],
                         "insert", newTransaction, newTransaction)

\* updateTransaction(id, updates): the payload queued is `updates`
ReplayUpdateTransaction ==
    \E transaction \in replay.local, amount \in {20, 50} :
       LET updates == [k \in {"amount"} |-> amount]
           updatedTransaction == [k \in DOMAIN transaction |->
                                    IF k \in DOMAIN updates THEN updates[k]
                                    ELSE transaction[k]]
       IN /\ updatedTransaction # transaction
          /\ ReplayAfter([replay EXCEPT !.local = {updatedTransaction}],
                         "update", updates, updates)

\* deleteTransaction(id): the payload queued is {id}
ReplayDeleteTransaction ==
    \E transaction \in replay.local :
       ReplayAfter([replay EXCEPT !.local = {}], "delete",
                   [k \in {"id"} |-> 1], [k \in {"id"} |-> 1])

\* the loop of sync() over the listed ids: syncItem, then markAsSynced when
\* it did not throw
RECURSIVE ReplayItems(_, _)
ReplayItems(r, ids) ==
    IF ids = <<>>
    THEN r
    ELSE LET item == RowById(r.queue, Head(ids))
             written == RemoteApply(r.remoteRows, item.operation, item.recordId,
                                    item.payload)
         IN ReplayItems(
                IF written.error
                THEN [r EXCEPT !.outcomes = Append(@, "fail")]
                ELSE [r EXCEPT !.remoteRows = written.rows,
                               !.queue = markAsSynced(@, item.id),
                               !.outcomes = Append(@, "ok")],
                Tail(ids))

\* one pass of SyncManager.sync() over the queue
ReplaySync ==
    /\ remote # "offline" /\ configured
    /\ ~replay.drained
    /\ replay' = ReplayItems([replay EXCEPT !.drained = TRUE, !.outcomes = <<>>],
                             getUnsyncedItems(replay.queue))
    /\ UNCHANGED <<mono, categorized, ledger, plaid, translated, inserted, txstore, overlap, transfer>>
    /\ EngineUnchanged

\* ------------------------------------------------------------------------
\* The remote row of an insert: the one the store sends itself, and the one
\* sync() sends from the queued payload
\* ------------------------------------------------------------------------
\* the values of a record's fields, told apart by where they come from: the
\* caller's value for a key, undefined, or a value the store fills in
Given(key) == <<"given">> \o key

Undefined == <<"undefined">>

Filled(what) == <<"filled", what>>

\* the keys the add actions accept from their caller (the Omit<...> types):
\* the required ones, and the optional ones
InsertData ==
    [transactions |->
         [required |->
              {<<"t", "y", "p", "e">>, <<"a", "m", "o", "u", "n", "t">>,
               <<"c", "a", "t", "e", "g", "o", "r", "y">>,
               <<"d", "e", "s", "c", "r", "i", "p", "t", "i", "o", "n">>,
               <<"d", "a", "t", "e">>},
          optional |->
              {<<"u", "s", "e", "r", "I", "d">>,
               <<"a", "c", "c", "o", "u", "n", "t", "I", "d">>,
               <<"m", "c", "c", "C", "o", "d", "e">>,
               <<"b", "a", "n", "k", "T", "r", "a", "n", "s", "a", "c", "t", "i", "o", "n", "I", "d">>,
               <<"u", "p", "d", "a", "t", "e", "d", "A", "t">>}],
     accounts |->
         [required |->
              {<<"u", "s", "e", "r", "I", "d">>, <<"n", "a", "m", "e">>,
               <<"t", "y", "p", "e">>, <<"c", "u", "r", "r", "e", "n", "c", "y">>,
               <<"b", "a", "l", "a", "n", "c", "e">>, <<"i", "c", "o", "n">>,
               <<"c", "o", "l", "o", "r">>,
               <<"i", "s", "D", "e", "f", "a", "u", "l", "t">>},
          optional |->
              {<<"b", "a", "n", "k", "C", "o", "n", "n", "e", "c", "t", "i", "o", "n", "I", "d">>,
               <<"e", "x", "t", "e", "r", "n", "a", "l", "A", "c", "c", "o", "u", "n", "t", "I", "d">>}],
     savings_goals |->
         [required |->
              {<<"n", "a", "m", "e">>,
               <<"t", "a", "r", "g", "e", "t", "A", "m", "o", "u", "n", "t">>,
               <<"c", "u", "r", "r", "e", "n", "t", "A", "m", "o", "u", "n", "t">>,
               <<"i", "c", "o", "n">>, <<"c", "o", "l", "o", "r">>},
          optional |->
              {<<"u", "s", "e", "r", "I", "d">>,
               <<"d", "e", "a", "d", "l", "i", "n", "e">>,
               <<"c", "o", "m", "p", "l", "e", "t", "e", "d", "A", "t">>}],
     budgets |->
         [required |->
              {<<"u", "s", "e", "r", "I", "d">>,
               <<"c", "a", "t", "e", "g", "o", "r", "y">>,
               <<"m", "o", "n", "t", "h", "l", "y", "L", "i", "m", "i", "t">>,
               <<"a", "l", "e", "r", "t", "T", "h", "r", "e", "s", "h", "o", "l", "d">>,
               <<"i", "s", "A", "c", "t", "i", "v", "e">>},
          optional |->
              {<<"s", "p", "e", "n", "t">>}]]

\* record[key], undefined for a key the record does not have
Get(record, key) == IF key \in DOMAIN record THEN record[key] ELSE Undefined

\* { ...data, key: value, ... }: the listed fields override the spread ones
Spread(data, fields) ==
    [key \in DOMAIN data \cup DOMAIN fields |->
        IF key \in DOMAIN fields THEN fields[key] ELSE data[key]]

\* the record an add action builds from its caller's data
NewRecord(tableName, data) ==
    LET id == <<"i", "d">>
        createdAt == <<"c", "r", "e", "a", "t", "e", "d", "A", "t">>
        updatedAt == <<"u", "p", "d", "a", "t", "e", "d", "A", "t">>
        now == Filled("now")
    IN CASE tableName = "transactions" ->
              Spread(data, [key \in {id, createdAt, <<"i", "s", "S", "y", "n", "c", "e", "d">>} |->
                               IF key = id THEN Filled("randomUUID")
                               ELSE IF key = createdAt THEN now ELSE Filled("false")])
         [] tableName = "accounts" ->
              Spread(data, [key \in {id, <<"i", "c", "o", "n">>, <<"c", "o", "l", "o", "r">>, createdAt, updatedAt} |->
                               IF key = id THEN Filled("randomUUID")
                               ELSE IF key \in {createdAt, updatedAt} THEN now
                               ELSE IF Get(data, key) = Undefined THEN Filled("byType")
                               ELSE data[key]])
         [] tableName = "savings_goals" ->
              Spread(data, [key \in {id, createdAt} |->
                               IF key = id THEN Filled("randomUUID") ELSE now])
         [] tableName = "budgets" ->
              Spread(data, [key \in {id, <<"s", "p", "e", "n", "t">>, createdAt, updatedAt} |->
                               IF key = id THEN Filled("randomUUID")
                               ELSE IF key \in {createdAt, updatedAt} THEN now
                               ELSE Filled("0")])

\* the request body of a remote write: the fields whose value is undefined
\* are left out of the JSON text
Body(fields) == {field \in fields : field[2] # Undefined}

\* the object literals of the stores' direct inserts: column and the key of
\* the record its value is read from
DirectColumns ==
    [transactions |->
         {<<<<"i", "d">>, <<"i", "d">>>>,
          <<<<"u", "s", "e", "r", "_", "i", "d">>, <<"u", "s", "e", "r", "I", "d">>>>,
          <<<<"t", "y", "p", "e">>, <<"t", "y", "p", "e">>>>,
          <<<<"c", "a", "t", "e", "g", "o", "r", "y">>, <<"c", "a", "t", "e", "g", "o", "r", "y">>>>,
          <<<<"a", "m", "o", "u", "n", "t">>, <<"a", "m", "o", "u", "n", "t">>>>,
          <<<<"d", "e", "s", "c", "r", "i", "p", "t", "i", "o", "n">>, <<"d", "e", "s", "c", "r", "i", "p", "t", "i", "o", "n">>>>,
          <<<<"d", "a", "t", "e">>, <<"d", "a", "t", "e">>>>,
          <<<<"a", "c", "c", "o", "u", "n", "t", "_", "i", "d">>, <<"a", "c", "c", "o", "u", "n", "t", "I", "d">>>>,
          <<<<"m", "c", "c", "_", "c", "o", "d", "e">>, <<"m", "c", "c", "C", "o", "d", "e">>>>,
          <<<<"b", "a", "n", "k", "_", "t", "r", "a", "n", "s", "a", "c", "t", "i", "o", "n", "_", "i", "d">>, <<"b", "a", "n", "k", "T", "r", "a", "n", "s", "a", "c", "t", "i", "o", "n", "I", "d">>>>},
     accounts |->
         {<<<<"i", "d">>, <<"i", "d">>>>,
          <<<<"u", "s", "e", "r", "_", "i", "d">>, <<"u", "s", "e", "r", "I", "d">>>>,
          <<<<"n", "a", "m", "e">>, <<"n", "a", "m", "e">>>>,
          <<<<"t", "y", "p", "e">>, <<"t", "y", "p", "e">>>>,
          <<<<"c", "u", "r", "r", "e", "n", "c", "y">>, <<"c", "u", "r", "r", "e", "n", "c", "y">>>>,
          <<<<"b", "a", "l", "a", "n", "c", "e">>, <<"b", "a", "l", "a", "n", "c", "e">>>>,
          <<<<"i", "c", "o", "n">>, <<"i", "c", "o", "n">>>>,
          <<<<"c", "o", "l", "o", "r">>, <<"c", "o", "l", "o", "r">>>>,
          <<<<"i", "s", "_", "d", "e", "f", "a", "u", "l", "t">>, <<"i", "s", "D", "e", "f", "a", "u", "l", "t">>>>},
     savings_goals |->
         {<<<<"i", "d">>, <<"i", "d">>>>,
          <<<<"u", "s", "e", "r", "_", "i", "d">>, <<"u", "s", "e", "r", "I", "d">>>>,
          <<<<"n", "a", "m", "e">>, <<"n", "a", "m", "e">>>>,
          <<<<"t", "a", "r", "g", "e", "t", "_", "a", "m", "o", "u", "n", "t">>, <<"t", "a", "r", "g", "e", "t", "A", "m", "o", "u", "n", "t">>>>,
          <<<<"c", "u", "r", "r", "e", "n", "t", "_", "a", "m", "o", "u", "n", "t">>, <<"c", "u", "r", "r", "e", "n", "t", "A", "m", "o", "u", "n", "t">>>>,
          <<<<"i", "c", "o", "n">>, <<"i", "c", "o", "n">>>>,
          <<<<"c", "o", "l", "o", "r">>, <<"c", "o", "l", "o", "r">>>>},
     budgets |->
         {<<<<"i", "d">>, <<"i", "d">>>>,
          <<<<"u", "s", "e", "r", "_", "i", "d">>, <<"u", "s", "e", "r", "I", "d">>>>,
          <<<<"c", "a", "t", "e", "g", "o", "r", "y">>, <<"c", "a", "t", "e", "g", "o", "r", "y">>>>,
          <<<<"m", "o", "n", "t", "h", "l", "y", "_", "l", "i", "m", "i", "t">>, <<"m", "o", "n", "t", "h", "l", "y", "L", "i", "m", "i", "t">>>>,
          <<<<"a", "l", "e", "r", "t", "_", "t", "h", "r", "e", "s", "h", "o", "l", "d">>, <<"a", "l", "e", "r", "t", "T", "h", "r", "e", "s", "h", "o", "l", "d">>>>,
          <<<<"i", "s", "_", "a", "c", "t", "i", "v", "e">>, <<"i", "s", "A", "c", "t", "i", "v", "e">>>>}]

\* supabase.from(table).insert({...}) of the add actions
DirectInsert(tableName, record) ==
    Body({<<field[1], Get(record, field[2])>> : field \in DirectColumns[tableName]})

\* supabase.from(table).insert(this.transformToSnakeCase(item.payload))
ReplayInsert(payload) ==
    Body({<<SnakeKey(key), payload[key]>> : key \in DOMAIN payload})

\* whether the add action attempts the remote insert
AttemptsRemote(tableName, data) ==
    /\ configured
    /\ tableName \in {"transactions", "savings_goals"} =>
          Get(data, <<"u", "s", "e", "r", "I", "d">>) # Undefined

NewInserted ==
    [tableName |-> "none", data |-> <<>>, record |-> <<>>, pc |-> "idle",
     direct |-> {}, payload |-> <<>>, replayed |-> {}]

\* addTransaction, addAccount, addGoal, addBudget: the record is built and
\* stored locally, the remote insert is attempted, and on its failure the
\* record goes into the queue as the payload of an insert
InsertAdd ==
    /\ inserted.pc = "new"
    /\ LET record == NewRecord(inserted.tableName, inserted.data)
       IN IF ~AttemptsRemote(inserted.tableName, inserted.data)
          THEN inserted' = [inserted EXCEPT !.record = record, !.pc = "local"]
          ELSE inserted' = [inserted EXCEPT
                   !.record = record,
                   !.direct = DirectInsert(inserted.tableName, record),
                   !.payload = IF RemoteOk THEN <<>> ELSE record,
                   !.pc = IF RemoteOk THEN "sent" ELSE "queued"]
    /\ UNCHANGED <<mono, categorized, ledger, plaid, translated, replay, txstore, overlap, transfer>>
    /\ EngineUnchanged

\* syncItem on the queued insert
InsertSyncItem ==
    /\ inserted.pc = "queued"
    /\ inserted' = [inserted EXCEPT !.replayed = ReplayInsert(inserted.payload),
                                    !.pc = "replayed"]
    /\ UNCHANGED <<mono, categorized, ledger, plaid, translated, replay, txstore, overlap, transfer>>
    /\ EngineUnchanged


\* ------------------------------------------------------------------------
\* One transaction of useTransactionsStore and the awaits of its actions
\* ------------------------------------------------------------------------
NoCall == [pc |-> "idle", value |-> 0]

NewTxStore ==
    [list |-> {}, db |-> {}, remoteRows |-> {}, queue |-> {}, made |-> 0, loads |-> 0,
     add |-> NoCall, upd |-> [u \in 1..MaxUpdates |-> NoCall]]

TxStoreFrame ==
    /\ UNCHANGED <<mono, categorized, ledger, plaid, translated, replay, inserted, overlap, transfer>>
    /\ EngineUnchanged

\* the transaction as the list and the local table hold it: the number of the
\* mutation its fields come from, and its flag
Stored(value, isSynced) == [value |-> value, isSynced |-> isSynced]

\* state.transactions.map((t) => t.id === id ? { ...t, isSynced: true } : t)
\* and db.transactions.update(id, { isSynced: true })
MarkSynced(rows) == {Stored(t.value, TRUE) : t \in rows}

\* what an action does with the answer to its remote write: on an error the
\* write goes into the queue, otherwise the transaction is marked synced
AfterResponse(s, operation, value, error) ==
    IF error
    THEN [s EXCEPT !.queue = @ \cup {[id |-> Cardinality(@) + 1,
                                      operation |-> operation, value |-> value]}]
    ELSE [s EXCEPT !.list = MarkSynced(@), !.db = MarkSynced(@)]

\* addTransaction up to its first await: the record is put into the list
TxAddStart ==
    /\ txstore.add.pc = "idle"
    /\ txstore' = [txstore EXCEPT
           !.list = {Stored(txstore.made + 1, FALSE)},
           !.made = @ + 1,
           !.add = [pc |-> "set", value |-> txstore.made + 1]]
    /\ TxStoreFrame

\* db.transactions.add has resolved: the remote insert is requested
TxAddStored ==
    /\ txstore.add.pc = "set"
    /\ txstore' = [txstore EXCEPT
           !.db = {Stored(txstore.add.value, FALSE)},
           !.add.pc = IF configured THEN "insert" ELSE "done"]
    /\ TxStoreFrame

\* the remote insert has answered
TxAddResponse ==
    /\ txstore.add.pc = "insert"
    /\ txstore' = AfterResponse(
           [txstore EXCEPT
               !.remoteRows = IF RemoteOk THEN {[value |-> txstore.add.value]} ELSE @,
               !.add.pc = "done"],
           "insert", txstore.add.value, ~RemoteOk)
    /\ TxStoreFrame

\* updateTransaction up to its first await, for a transaction of the list
\* (it returns at once when the list does not have it)
TxUpdStart(u) ==
    /\ txstore.upd[u].pc = "idle"
    /\ \A v \in 1..(u - 1) : txstore.upd[v].pc # "idle"
    /\ txstore.list # {}
    /\ txstore' = [txstore EXCEPT
           !.list = {Stored(txstore.made + 1, FALSE)},
           !.made = @ + 1,
           !.upd[u] = [pc |-> "set", value |-> txstore.made + 1]]
    /\ TxStoreFrame

\* db.transactions.update has resolved (it changes a row only when the table
\* has one): the remote update is requested
TxUpdStored(u) ==
    /\ txstore.upd[u].pc = "set"
    /\ txstore' = [txstore EXCEPT
           !.db = IF @ = {} THEN {} ELSE {Stored(txstore.upd[u].value, FALSE)},
           !.upd[u].pc = IF configured THEN "update" ELSE "done"]
    /\ TxStoreFrame

\* the remote update has answered (matching no row is not an error)
TxUpdResponse(u) ==
    /\ txstore.upd[u].pc = "update"
    /\ txstore' = AfterResponse(
           [txstore EXCEPT
               !.remoteRows = IF RemoteOk /\ @ # {}
                              THEN {[value |-> txstore.upd[u].value]} ELSE @,
               !.upd[u].pc = "done"],
           "update", txstore.upd[u].value, ~RemoteOk)
    /\ TxStoreFrame

\* loadTransactions: the remote rows replace the list when the read succeeds,
\* the rows of the local table otherwise
LoadTransactions ==
    /\ txstore.loads < MaxLoads
    /\ IF configured /\ RemoteOk
       THEN LET loaded == {Stored(t.value, TRUE) : t \in txstore.remoteRows}
            IN txstore' = [txstore EXCEPT
                   !.list = loaded,
                   !.db = IF loaded = {} THEN @ ELSE loaded,
                   !.loads = @ + 1]
       ELSE txstore' = [txstore EXCEPT !.list = txstore.db, !.loads = @ + 1]
    /\ TxStoreFrame

\* ------------------------------------------------------------------------
\* syncConnection calls that overlap on one connection
\* ------------------------------------------------------------------------
NoPass ==
    [pc |-> "idle", existingIds |-> {}, list |-> <<>>, k |-> 0, newTransactions |-> 0]

\* transactions: the list of useTransactionsStore; statement: what the
\* provider returns for the account of the connection
NewOverlap ==
    [transactions |-> <<>>, statement |-> <<>>, passes |-> [p \in 1..MaxOverlap |-> NoPass]]

OverlapFrame ==
    /\ UNCHANGED <<mono, categorized, ledger, plaid, translated, replay, inserted, txstore, transfer>>
    /\ EngineUnchanged

\* syncConnection(id) of the store up to the first await of the service: the
\* known ids are read from the list; no flag is tested before
PassStart(p) ==
    /\ overlap.passes[p].pc = "idle"
    /\ overlap' = [overlap EXCEPT
           !.passes[p].pc = "listing",
           !.passes[p].existingIds = ExistingIds(overlap.transactions)]
    /\ OverlapFrame

\* the service after validateConnection, getAccounts and getTransactions
PassList(p) ==
    /\ overlap.passes[p].pc = "listing"
    /\ overlap' = [overlap EXCEPT
           !.passes[p].list = overlap.statement,
           !.passes[p].k = 1,
           !.passes[p].pc = IF overlap.statement = <<>> THEN "done" ELSE "loop"]
    /\ OverlapFrame

\* one turn of the inner loop of the service: the dedupe test against the
\* known ids of this pass and, for a new id, the callback's addTransaction
PassTransaction(p) ==
    /\ overlap.passes[p].pc = "loop"
    /\ LET pass == overlap.passes[p]
           tx == pass.list[pass.k]
           isNew == IsNewTransaction(tx, pass.existingIds)
           newTransaction == Tx(Len(overlap.transactions) + 1, "u1", tx.id,
                                LocalAccount(1, tx.accountId).id, FALSE)
       IN overlap' = [overlap EXCEPT
              !.transactions = IF isNew THEN <<newTransaction>> \o @ ELSE @,
              !.passes[p].newTransactions = IF isNew THEN @ + 1 ELSE @,
              !.passes[p].k = @ + 1,
              !.passes[p].pc = IF pass.k = Len(pass.list) THEN "done" ELSE "loop"]
    /\ OverlapFrame

\* ------------------------------------------------------------------------
\* useAccountsStore.transferBetweenAccounts
\* ------------------------------------------------------------------------
\* the accounts of the list, and one id no account has
TransferAccounts == 1..MaxTransferAccounts
TransferIds == 1..(MaxTransferAccounts + 1)

NoTransfer ==
    [pc |-> "idle", fromId |-> 0, toId |-> 0, amount |-> 0, fromBalance |-> 0,
     toBalance |-> 0]

\* balance: the balance of each account of the list; opening: the balances
\* before the first transfer
NewTransfer ==
    [balance |-> [a \in TransferAccounts |-> 0], opening |-> [a \in TransferAccounts |-> 0],
     calls |-> [c \in 1..MaxTransfers |-> NoTransfer]]

TransferFrame ==
    /\ UNCHANGED <<mono, categorized, ledger, plaid, translated, replay, inserted, txstore,
                   overlap>>
    /\ EngineUnchanged

\* updateAccount(id, { balance }) up to its first await: the account of the
\* list is replaced (nothing happens when the list does not have it)
UpdateBalance(balance, id, value) ==
    IF id \in DOMAIN balance THEN [balance EXCEPT ![id] = value] ELSE balance

\* transferBetweenAccounts(fromId, toId, amount) up to its first await: both
\* accounts are read, the call returns when one is missing or the source has
\* less than the amount, otherwise updateAccount is called for the source
TransferStart(c) ==
    /\ transfer.calls[c].pc = "idle"
    /\ \A d \in 1..(c - 1) : transfer.calls[d].pc # "idle"
    /\ \E fromId \in TransferIds, toId \in TransferIds, amount \in 1..MaxAmount :
          LET found == fromId \in DOMAIN transfer.balance /\ toId \in DOMAIN transfer.balance
              call == [NoTransfer EXCEPT !.fromId = fromId, !.toId = toId,
                                         !.amount = amount]
          IN IF ~found
             THEN transfer' = [transfer EXCEPT !.calls[c] = [call EXCEPT !.pc = "returned"]]
             ELSE IF transfer.balance[fromId] < amount
             THEN transfer' = [transfer EXCEPT
                      !.calls[c] = [call EXCEPT !.pc = "returned",
                                                !.fromBalance = transfer.balance[fromId],
                                                !.toBalance = transfer.balance[toId]]]
             ELSE transfer' = [transfer EXCEPT
                      !.balance = UpdateBalance(@, fromId, transfer.balance[fromId] - amount),
                      !.calls[c] = [call EXCEPT !.pc = "source",
                                                !.fromBalance = transfer.balance[fromId],
                                                !.toBalance = transfer.balance[toId]]]
    /\ TransferFrame

\* the updateAccount of the source has resolved: updateAccount is called for
\* the destination with the balance read at the start
TransferCredit(c) ==
    /\ transfer.calls[c].pc = "source"
    /\ LET call == transfer.calls[c]
       IN transfer' = [transfer EXCEPT
              !.balance = UpdateBalance(@, call.toId, call.toBalance + call.amount),
              !.calls[c].pc = "done"]
    /\ TransferFrame

\* ------------------------------------------------------------------------
\* The synchronisation engine as a whole
\* ------------------------------------------------------------------------
InitEngine ==
    /\ remote \in {"offline", "rejecting", "accepting"}
    /\ configured \in BOOLEAN
    /\ remoteWrites = {}
    /\ sm = [isOnline |-> remote # "offline", isSyncing |-> FALSE, listeners |-> {}]
    /\ smRuns = [s \in RunSlots |-> IdleRun]
    /\ st = [isOnline |-> remote # "offline", isSyncing |-> FALSE,
             pendingCount |-> 0, error |-> FALSE]
    /\ stRuns = [s \in RunSlots |-> IdleRun]
    /\ step = NoStep
    /\ bank = IdleBank

\* the components outside the engine as constructed
InitFeatures ==
    /\ mono = NewMono
    /\ categorized = NotCategorized
    /\ ledger = NewLedger
    /\ plaid = NewPlaid
    /\ translated = [obj |-> {}, result |-> {}, done |-> FALSE]
    /\ replay = NewReplay /\ inserted = NewInserted /\ txstore = NewTxStore /\ overlap = NewOverlap /\ transfer = NewTransfer

\* the application started on an empty database
Init ==
    /\ InitEngine
    /\ syncQueue = {}
    /\ clock = 0
    /\ transactions = <<>>
    /\ connections = {}
    /\ accounts = {}
    /\ InitFeatures

Next ==
    \/ AddTransaction
    \/ AddConnection
    \/ GoOnline
    \/ GoOffline
    \/ ServerFlip
    \/ TimerTick
    \/ ManualSync
    \/ SMResume
    \/ ForcSync
    \/ CheckPendingItems
    \/ StResume

Spec == Init /\ [][Next]_vars

\* ------------------------------------------------------------------------
\* The drain loops on a queue table whose rows carry the key the listing
\* queries for (synced: 0 instead of the boolean addToSyncQueue stores)
\* ------------------------------------------------------------------------
RecordIds(tableName) == IF tableName = "transactions" THEN TxIds ELSE ConnIds

\* the records a queue row can target
Targets == {t \in [tableName : TableNames, recordId : TxIds \cup ConnIds] :
               t.recordId \in RecordIds(t.tableName)}

\* queue tables with rows of the ids S, created in any order
NumericQueues(S) ==
    {{Row(i, tg[i].tableName, op[i], tg[i].recordId, JSNum(0), ord[i]) : i \in S} :
        tg \in [S -> Targets], op \in [S -> Operations],
        ord \in {f \in [S -> 1..Cardinality(S)] : \A i, j \in S : i # j => f[i] # f[j]}}

\* the local records the rows of q stand for: a queued insert or update leaves
\* its record in the local list with isSynced = false
RecordsOf(q, tableName) ==
    {r.recordId : r \in {x \in q : x.tableName = tableName /\ x.operation # "delete"}}

TxSeqOf(ids) == [i \in 1..Len(ids) |-> Tx(ids[i], "u1", 0, 0, FALSE)]

InitDrain ==
    /\ InitEngine
    /\ configured
    /\ \E S \in (SUBSET QueueIds) \ {{}} :
          /\ syncQueue \in NumericQueues(S)
          /\ clock = Cardinality(S)
    /\ transactions = TxSeqOf(SortedSeq(RecordsOf(syncQueue, "transactions")))
    /\ connections = {Conn(id, "u1", "monobank", "active", 0, <<>>) :
                         id \in RecordsOf(syncQueue, "bank_connections")}
    /\ accounts = {}
    /\ InitFeatures

NextDrain ==
    \/ GoOnline
    \/ GoOffline
    \/ ServerFlip
    \/ TimerTick
    \/ ManualSync
    \/ SMResume
    \/ ForcSync
    \/ StResume

SpecDrain == InitDrain /\ [][NextDrain]_vars

\* the drains with subscribers whose callbacks may raise; every started pass
\* is resumed at each of its awaits (each remote and store call settles)
SpecListeners ==
    /\ InitDrain /\ [][GoOnline \/ GoOffline \/ TimerTick \/ ManualSync \/ SMResume \/ On]_vars
    /\ WF_vars(SMResume)

\* ------------------------------------------------------------------------
\* The bank sync passes of one connection
\* ------------------------------------------------------------------------
\* local transactions imported earlier, one per external id of E
ImportedSeq(ids) ==
    [i \in 1..Len(ids) |-> Tx(i, "u1", ids[i], LocalAccount(1, 1).id, TRUE)]

InitBank ==
    /\ InitEngine
    /\ configured
    /\ remote \in {"offline", "accepting"}
    /\ syncQueue = {}
    /\ clock = 0
    /\ \E provider \in Providers : connections = {Conn(1, "u1", provider, "active", 0, <<>>)}
    /\ \E A \in SUBSET ExtAccounts : accounts = {LocalAccount(1, a) : a \in A}
    /\ \E E \in SUBSET ExtTxIds : transactions = ImportedSeq(SortedSeq(E))
    /\ InitFeatures

NextBank ==
    \/ SyncConnection
    \/ BankValidate
    \/ BankAccounts
    \/ BankFetch
    \/ BankFinish

SpecBank == InitBank /\ [][NextBank]_vars

\* the MonobankProvider singleton on its own
NextMono ==
    \/ MonoValidateConnection
    \/ MonoGetAccounts
    \/ MonoGetTransactions
    \/ MonoSetupWebhook
    \/ MonoTick

SpecMono == Init /\ [][NextMono]_vars

\* the singleton used by sync passes as time goes by
SpecMonoPass == Init /\ [][MonoTick \/ MonoSyncPass]_vars

\* the accounts and transactions stores, started empty
NextStore ==
    \/ AddAccount
    \/ UpdateAccount
    \/ DeleteAccount
    \/ SetDefaultAccount
    \/ LoadAccounts
    \/ AddTransactionToAccount
    \/ UpdateTransaction
    \/ DeleteTransaction
    \/ ServerFlip

SpecStore == Init /\ [][NextStore]_vars

\* connecting and disconnecting banks next to accounts kept by hand
InitConnect ==
    /\ InitEngine
    /\ syncQueue = {} /\ clock = 0 /\ transactions = <<>>
    /\ connections = {}
    /\ \E A \in SUBSET ExtAccounts : accounts = {Acct(a, 0, 0) : a \in A}
    /\ InitFeatures

SpecConnect == InitConnect /\ [][ConnectBank \/ DisconnectBank \/ ServerFlip]_vars

\* one call of PlaidProvider.getTransactions on a configured, reachable store;
\* every awaited request returns and the code after the loop runs
InitPlaid == Init /\ remote = "accepting" /\ configured = TRUE

SpecPlaid ==
    /\ InitPlaid
    /\ [][PlaidRequest \/ PlaidFilter]_vars
    /\ WF_vars(PlaidFilter)

\* transformToSnakeCase applied to the payload of one queue row: a whole
\* record for an insert, some of its fields for an update, the id for a delete
InitTranslate ==
    /\ InitEngine
    /\ remote = "accepting" /\ configured
    /\ syncQueue = {} /\ clock = 0 /\ transactions = <<>>
    /\ connections = {} /\ accounts = {}
    /\ mono = NewMono /\ categorized = NotCategorized /\ ledger = NewLedger
    /\ plaid = NewPlaid /\ replay = NewReplay /\ inserted = NewInserted /\ txstore = NewTxStore /\ overlap = NewOverlap /\ transfer = NewTransfer
    /\ \E tableName \in DOMAIN InternalKeys :
          \E obj \in {InternalKeys[tableName]}
                        \cup {u \in SUBSET InternalKeys[tableName] :
                                  Cardinality(u) \in 1..MaxKeys} :
             translated = [obj |-> obj, result |-> {}, done |-> FALSE]

SpecTranslate == InitTranslate /\ [][Translate]_vars

\* one record mutated and replayed while the remote store comes and goes
SpecReplay ==
    Init /\ [][ReplayAddTransaction \/ ReplayUpdateTransaction \/ ReplayDeleteTransaction
                  \/ ReplaySync \/ ServerFlip]_vars

\* one record added by its store while the remote store accepts, rejects or
\* is unreachable, and its queued insert replayed
InitInsert ==
    /\ InitEngine
    /\ syncQueue = {} /\ clock = 0 /\ transactions = <<>>
    /\ connections = {} /\ accounts = {}
    /\ mono = NewMono /\ categorized = NotCategorized /\ ledger = NewLedger
    /\ plaid = NewPlaid /\ replay = NewReplay
    /\ translated = [obj |-> {}, result |-> {}, done |-> FALSE]
    /\ txstore = NewTxStore /\ overlap = NewOverlap /\ transfer = NewTransfer
    /\ \E tableName \in DOMAIN InsertData :
          \E present \in SUBSET InsertData[tableName].optional :
             \E undefined \in SUBSET present :
                inserted = [NewInserted EXCEPT
                    !.tableName = tableName,
                    !.data = [key \in InsertData[tableName].required \cup present |->
                                 IF key \in undefined THEN Undefined ELSE Given(key)],
                    !.pc = "new"]

SpecInsert == InitInsert /\ [][InsertAdd \/ InsertSyncItem]_vars

\* addTransaction and updateTransaction calls on one transaction, suspended at
\* their awaits, while the remote store comes and goes
InitCalls ==
    /\ Init /\ configured /\ remote # "offline"

SpecCalls ==
    InitCalls /\ [][TxAddStart \/ TxAddStored \/ TxAddResponse \/ ServerFlip
                       \/ \E u \in 1..MaxUpdates :
                             TxUpdStart(u) \/ TxUpdStored(u) \/ TxUpdResponse(u)]_vars

\* the same calls, and loadTransactions
SpecLoad ==
    InitCalls /\ [][TxAddStart \/ TxAddStored \/ TxAddResponse \/ ServerFlip
                       \/ LoadTransactions
                       \/ \E u \in 1..MaxUpdates :
                             TxUpdStart(u) \/ TxUpdStored(u) \/ TxUpdResponse(u)]_vars

\* syncConnection called again on a connection while a pass is under way
InitOverlap ==
    /\ InitEngine
    /\ configured /\ remote = "accepting"
    /\ syncQueue = {} /\ clock = 0 /\ transactions = <<>>
    /\ connections = {} /\ accounts = {}
    /\ mono = NewMono /\ categorized = NotCategorized /\ ledger = NewLedger
    /\ plaid = NewPlaid /\ replay = NewReplay /\ inserted = NewInserted
    /\ translated = [obj |-> {}, result |-> {}, done |-> FALSE]
    /\ txstore = NewTxStore /\ transfer = NewTransfer
    /\ \E E \in SUBSET ExtTxIds, l \in StatementLists :
          overlap = [NewOverlap EXCEPT
              !.transactions = ImportedSeq(SortedSeq(E)),
              !.statement = [k \in 1..Len(l) |-> ProviderTx(l[k], 1)]]

SpecOverlap ==
    InitOverlap /\ [][\E p \in 1..MaxOverlap :
                         PassStart(p) \/ PassList(p) \/ PassTransaction(p)]_vars

\* transfers between the accounts of the list, suspended between their two
\* updates
InitTransfer ==
    /\ InitEngine
    /\ configured /\ remote = "accepting"
    /\ syncQueue = {} /\ clock = 0 /\ transactions = <<>>
    /\ connections = {} /\ accounts = {}
    /\ mono = NewMono /\ categorized = NotCategorized /\ ledger = NewLedger
    /\ plaid = NewPlaid /\ replay = NewReplay /\ inserted = NewInserted
    /\ translated = [obj |-> {}, result |-> {}, done |-> FALSE]
    /\ txstore = NewTxStore /\ overlap = NewOverlap
    /\ \E opening \in [TransferAccounts -> 0..MaxBalance] :
          transfer = [NewTransfer EXCEPT !.balance = opening, !.opening = opening]

SpecTransfer ==
    InitTransfer /\ [][\E c \in 1..MaxTransfers : TransferStart(c) \/ TransferCredit(c)]_vars

\* autoCategorize applied to one set of arguments
InitCategorize ==
    /\ InitEngine
    /\ remote = "accepting" /\ configured
    /\ syncQueue = {} /\ clock = 0 /\ transactions = <<>>
    /\ connections = {} /\ accounts = {}
    /\ mono = NewMono
    /\ ledger = NewLedger
    /\ plaid = NewPlaid
    /\ translated = [obj |-> {}, result |-> {}, done |-> FALSE]
    /\ replay = NewReplay /\ inserted = NewInserted /\ txstore = NewTxStore /\ overlap = NewOverlap /\ transfer = NewTransfer
    /\ LET mccCodes ==
               {JSUndefined, JSStr(""), JSNum(0), JSStr("742"), JSNum(742), JSStr("9999"),
                JSNum(9999)}
                   \cup {JSStr(k) : k \in DOMAIN MCC_RANGES}
                   \cup {JSNum(n) : n \in MccNumbers}
           words == {"Uber", "ride", "Pizza", "gas", "salary"}
           descriptions == {JSUndefined} \cup {JSStr(d) : d \in SeqsUpTo(words, MaxWords)}
           amounts == {JSUndefined, JSNum(0), JSNum(50), JSNum(-50)}
       IN \E c \in mccCodes, d \in descriptions, a \in amounts :
             categorized = [NotCategorized EXCEPT !.mccCode = c, !.description = d,
                                                  !.amount = a]

SpecCategorize == InitCategorize /\ [][Categorize]_vars

\* the fairness the scheduling gives: the 30-second interval keeps firing and
\* every awaited call returns
SpecLive ==
    /\ Init /\ [][Next]_vars
    /\ WF_vars(TimerTick) /\ WF_vars(SMResume) /\ WF_vars(StResume)

IsAddTransactionStep == Len(transactions') = Len(transactions) + 1

\* C3: addTransaction with a failing remote write leaves the record in the
\* local list with isSynced = false and creates exactly one pending queue row
\* ('transactions', insert, the new id); with a successful remote write it
\* creates no queue row.
C3_OfflineAddEnqueuesOnce ==
    [][IsAddTransactionStep =>
        LET new == transactions'[1]
            failed == Write("transactions", "insert", new.id, FALSE) \in remoteWrites'
            ok == Write("transactions", "insert", new.id, TRUE) \in remoteWrites'
        IN /\ failed =>
                /\ ~new.isSynced
                /\ \E r \in syncQueue' :
                      /\ syncQueue' \ syncQueue = {r}
                      /\ r.tableName = "transactions" /\ r.operation = "insert"
                      /\ r.recordId = new.id /\ IsPending(r)
           /\ ok => syncQueue' = syncQueue]_vars

\* C3 witness: a transaction whose remote insert failed is in the list and has
\* its queue row
C3_Witness ==
    \E i \in DOMAIN transactions :
        /\ Write("transactions", "insert", transactions[i].id, FALSE) \in remoteWrites
        /\ \E r \in syncQueue : r.recordId = transactions[i].id /\ r.tableName = "transactions"

\* the local transaction a queue row targets, if it is in the list
TargetIsSynced(r) ==
    \A i \in DOMAIN transactions :
        transactions[i].id = r.recordId => transactions[i].isSynced

RECURSIVE ByCreation(_)
ByCreation(S) ==
    IF S = {} THEN <<>>
    ELSE LET r == CHOOSE x \in S : \A y \in S : x.createdAt <= y.createdAt
         IN <<r.id>> \o ByCreation(S \ {r})

\* C5: the pending listing is exactly the rows enqueued and not yet marked
\* synced, in creation order, and a pass attempts them in that order.
C5_ListingIsPendingInCreationOrder ==
    /\ getUnsyncedItems(syncQueue) = ByCreation({r \in syncQueue : IsPending(r)})
    /\ \A s \in RunSlots :
          smRuns[s].pc \in {"item", "mark"} =>
              smRuns[s].items = ByCreation({RowById(syncQueue, smRuns[s].items[k]) :
                                               k \in DOMAIN smRuns[s].items})

\* a sync() call made in this step found the device offline or a drain running
IsBlockedSyncCall ==
    \/ step'.call \in {"manual", "timer"} /\ ~sm.isOnline
    \/ step'.call # "none" /\ sm.isSyncing

\* C6: a sync() call made while offline or while an earlier call has not
\* completed does nothing (no remote write, no row marked, no sync event,
\* syncedCount 0), and at most one SyncManager drain is in progress.
C6_BlockedSyncIsNoOp ==
    /\ [](Cardinality(ActiveSlots(smRuns)) <= 1)
    /\ [][IsBlockedSyncCall =>
            /\ ~step'.entered
            /\ step'.syncedCount = 0
            /\ \A i \in DOMAIN step'.emits :
                  step'.emits[i] \notin {"sync-start", "sync-complete", "sync-error"}
            /\ UNCHANGED <<syncQueue, remoteWrites, smRuns>>
            /\ sm'.isSyncing = sm.isSyncing]_vars

\* C6 witness: a manual sync() call arrived during a drain and was refused
C6_Witness ==
    /\ step.call = "manual" /\ ~step.entered
    /\ sm.isSyncing /\ sm.isOnline
    /\ Cardinality(ActiveSlots(smRuns)) = 1

\* C7: if the remote store stays reachable and accepting from some point on,
\* every pending queue row is eventually marked synced.
C7_PendingEventuallySynced ==
    <>[](remote = "accepting") =>
        \A id \in QueueIds :
            (\E r \in syncQueue : r.id = id /\ IsPending(r))
                ~> (\E r \in syncQueue : r.id = id /\ IsMarkedSynced(r))

\* C8: no two local transactions of the same owner carry the same external
\* (bank) transaction id.
C8_ExternalIdUniquePerOwner ==
    \A i, j \in DOMAIN transactions :
        (i # j /\ transactions[i].userId = transactions[j].userId
               /\ transactions[i].bankTransactionId # 0)
            => transactions[i].bankTransactionId # transactions[j].bankTransactionId

\* the service call returned from a pass in which no error was collected
PassWithoutErrors == bank.svc = "returned" /\ bank.result.errors = <<>>

\* C9: for a pass without errors over the returned list L and the known ids K,
\* transactionsSynced = |L|, newTransactions = the number of elements of L
\* whose id is not in K, and the callback ran exactly once for each of these,
\* in order, and for no other element.
C9_DedupCounts ==
    PassWithoutErrors =>
        /\ bank.result.transactionsSynced = Len(bank.L)
        /\ bank.result.newTransactions =
               Cardinality({k \in DOMAIN bank.L : bank.L[k].id \notin bank.K})
        /\ bank.cb = SelectSeq(bank.L, LAMBDA tx : tx.id \notin bank.K)

\* C9 witness: K = {1}, the provider returned the ids <<1, 2>>, only 2 was
\* handed to the callback
C9_Witness ==
    /\ PassWithoutErrors
    /\ bank.K = {1}
    /\ Len(bank.L) = 2 /\ bank.L[1].id = 1 /\ bank.L[2].id = 2
    /\ bank.result.transactionsSynced = 2 /\ bank.result.newTransactions = 1
    /\ Len(bank.cb) = 1 /\ bank.cb[1].id = 2

\* C10: the service call never raises, whatever the provider calls and the
\* callback do; the store call returns the service's result record when no
\* local write failed, and raises only when the local write of the connection
\* update failed both in the body and in the catch block.
C10_SyncNeverRaises ==
    /\ bank.svc # "raised"
    /\ bank.pc \in {"update", "catch", "done"} => (bank.svc \in {"returned", "none"})
    /\ bank.pc = "done" =>
          /\ bank.out \in {"returned", "raised"}
          /\ bank.out = "raised" => bank.dbFailures = 2
          /\ bank.dbFailures = 0 => (bank.svc = "returned" => bank.ret = bank.result)

\* C10 as stated: the store call always returns a result record
C10_StoreAlwaysReturns ==
    bank.pc = "done" => bank.out = "returned"

\* C10 witness: a provider call threw outside the account loop and the store
\* still returned the result record carrying the error
C10_Witness ==
    /\ bank.pc = "done" /\ bank.out = "returned"
    /\ bank.ret.errors = <<"Sync failed">>
    /\ ~bank.ret.success

\* C11: the service's result has success = true iff its error list is empty;
\* a turn of the account loop adds one error string iff the turn failed, and
\* whether it failed or not the loop goes on to the next account, or returns
\* after the last one.
C11_AccountErrorContinues ==
    /\ [](bank.svc = "returned" => (bank.result.success <=> bank.result.errors = <<>>))
    /\ [][bank.pc = "fetch" =>
            /\ Len(bank'.result.errors) - Len(bank.result.errors)
                  = Cardinality(bank'.failedAccts) - Cardinality(bank.failedAccts)
            /\ Len(bank'.result.errors) - Len(bank.result.errors) \in {0, 1}
            /\ IF bank.aidx < Len(bank.accts)
               THEN bank'.pc = "fetch" /\ bank'.aidx = bank.aidx + 1
               ELSE bank'.svc = "returned"]_vars

\* C11 witness: of two accounts the first failed, one error was recorded and
\* a transaction of the second was still handed to the callback and imported
C11_Witness ==
    /\ bank.svc = "returned" /\ ~bank.result.success
    /\ Len(bank.accts) = 2 /\ bank.failedAccts = {1}
    /\ bank.result.errors = <<"Failed to sync account">>
    /\ \E k \in DOMAIN bank.cb : bank.cb[k].accountId = 2
    /\ \E i \in DOMAIN transactions :
          transactions[i].accountId = LocalAccount(bank.conn, 2).id

\* validateConnection answered false in the current pass
ValidationFailed ==
    /\ bank.svc = "returned"
    /\ bank.result.errors # <<>>
    /\ bank.result.errors[1] = "Connection is no longer valid"

\* C12: when validateConnection reports the connection invalid, no account and
\* no transaction is listed, the counts of the result are 0 and success is
\* false, the callback is never invoked, and once the store call has ended the
\* connection's status is 'error' or 'expired'.
C12_InvalidAborts ==
    ValidationFailed =>
        /\ ~bank.result.success
        /\ bank.result.accountsSynced = 0
        /\ bank.result.transactionsSynced = 0
        /\ bank.result.newTransactions = 0
        /\ bank.accts = <<>> /\ bank.L = <<>> /\ bank.cb = <<>>
        /\ bank.pc = "done" => ConnById(bank.conn).status \in {"error", "expired"}

\* C12 witness: an invalid connection whose store call has returned
C12_Witness ==
    /\ ValidationFailed
    /\ bank.pc = "done" /\ bank.out = "returned"
    /\ ConnById(bank.conn).status = "error"

\* the store call on an existing connection has returned a result record
StoreReturned == bank.pc = "done" /\ bank.svc = "returned" /\ bank.out = "returned"

\* C13: after a store call on an existing connection has returned, the
\* connection's status is 'active' iff the returned result's success flag is
\* true and 'error' otherwise, its last error holds the returned result's
\* errors, and its last-sync timestamp is the one of the service's result,
\* which is the returned result's when no local write failed.
C13_RecordReflectsResult ==
    StoreReturned =>
        LET c == ConnById(bank.conn)
        IN /\ c.status = IF bank.ret.success THEN "active" ELSE "error"
           /\ c.errorMessage = bank.ret.errors
           /\ c.lastSyncAt = bank.result.lastSyncAt
           /\ bank.dbFailures = 0 => c.lastSyncAt = bank.ret.lastSyncAt

\* C13 as stated: the last-sync timestamp is the returned result's after
\* every call
C13_StampIsReturnedResults ==
    StoreReturned => ConnById(bank.conn).lastSyncAt = bank.ret.lastSyncAt

\* C13 witness: a partially failed pass whose errors and timestamp are on the
\* connection
C13_Witness ==
    /\ StoreReturned /\ bank.dbFailures = 0
    /\ bank.perAccountErrors = 1 /\ bank.L # <<>>
    /\ ConnById(bank.conn).status = "error"
    /\ ConnById(bank.conn).errorMessage = <<"Failed to sync account">>
    /\ ConnById(bank.conn).lastSyncAt = StartStamp(bank.passNo)

\* the step is a statement request reaching makeRequest
IsStatementCall ==
    mono'.calls = mono.calls + 1 /\ mono'.requested /\ IsStatement(mono'.endpoint)

\* C14: a statement call is rejected by the limiter iff the previous statement
\* request that was sent was less than 60 seconds earlier; a call to another
\* endpoint is never rejected by the limiter and leaves the cooldown of the
\* statement endpoint as it was.
C14_LimiterIsStatementOnly ==
    [][/\ IsStatementCall =>
            (mono'.limited <=> /\ mono.lastStatementAt # 0
                               /\ mono.now - mono.lastStatementAt < MIN_REQUEST_INTERVAL)
       /\ (mono'.calls = mono.calls + 1 /\ mono'.requested
              /\ ~IsStatement(mono'.endpoint)) =>
            /\ ~mono'.limited
            /\ IsRateLimited(mono', "/personal/statement/")
                  = IsRateLimited(mono, "/personal/statement/")]_vars

C20_FailedLocalWriteChangesNothing ==
    [][(step'.call = "addTransaction" /\ step'.done = "threw") =>
          /\ transactions' = transactions
          /\ remoteWrites' = remoteWrites
          /\ syncQueue' = syncQueue]_vars

\* the table entry of the code given, if the code is in the table
IsTableCode(v) ==
    \/ v.type = "string" /\ v.val \in DOMAIN MCC_RANGES
    \/ v.type = "number" /\ v.val \in MccNumbers

\* C17: for every code of the static table, given as a string or as a number,
\* autoCategorize returns the table's entry whatever the description and the
\* amount are, and the number gives what its decimal string gives.
C17_TableCodeHasPriority ==
    (categorized.done /\ IsTableCode(categorized.mccCode)) =>
        /\ categorized.mccCode.type = "string" =>
              categorized.result = MCC_RANGES[categorized.mccCode.val]
        /\ categorized.mccCode.type = "number" =>
              /\ NatToString(categorized.mccCode.val) \in DOMAIN MCC_RANGES
              /\ categorized.result = MCC_RANGES[NatToString(categorized.mccCode.val)]
              /\ categorized.result = autoCategorize(JSStr(NatToString(categorized.mccCode.val)),
                                                     categorized.description,
                                                     categorized.amount)

\* C17 witness: code 5812 as a number, a description with a transport keyword
\* and a positive amount give (food, expense)
C17_Witness ==
    /\ categorized.done
    /\ categorized.mccCode.type = "number" /\ categorized.mccCode.val = 5812
    /\ categorized.description.type = "string"
    /\ categorized.description.val = <<"Uber", "ride">>
    /\ categorized.amount.type = "number" /\ categorized.amount.val = 50
    /\ categorized.result = Mapping("food", "expense")

\* C18: without a table match, a description matching a keyword classifier
\* gets the mapping of the first matching classifier for every amount; without
\* a keyword match a positive amount gives (other, income); everything else
\* gives (other, expense).
C18_KeywordBeforeAmount ==
    (categorized.done /\ ~IsTableCode(categorized.mccCode)) =>
        LET words == IF categorized.description.type = "string"
                     THEN categorized.description.val ELSE <<>>
            M == MatchingClassifiers(words)
        IN IF M # {}
           THEN categorized.result = Classifiers[CHOOSE k \in M : \A j \in M : k <= j].mapping
           ELSE IF categorized.amount.type = "number" /\ categorized.amount.val > 0
           THEN categorized.result = Mapping("other", "income")
           ELSE categorized.result = Mapping("other", "expense")

\* the sum of the signed amounts of a set of transactions
RECURSIVE SignedSum(_)
SignedSum(txs) ==
    IF txs = {} THEN 0
    ELSE LET t == CHOOSE x \in txs : TRUE
         IN SignedAmount(t.type, t.amount) + SignedSum(txs \ {t})

\* C16: after any sequence of transaction inserts, updates and deletes the
\* cached balance of every account in the store is its opening balance plus
\* the signed sum of the transactions linked to it, with the sign inverted
\* for a credit-type account.
C16_BalanceFollowsTransactions ==
    \A a \in ledger.accounts :
        LET linked == {t \in ledger.transactions : t.accountId = a.id}
            sign == IF a.type = "credit" THEN -1 ELSE 1
        IN a.balance = ledger.opening[a.id] + sign * SignedSum(linked)

\* C19: for every table, operation and record the queue holds exactly one
\* pending row per remote write of a store action that reported failure.
C19_OneRowPerFailedWrite ==
    \A i \in DOMAIN ledger.failed :
        LET w == ledger.failed[i]
            queued == {row \in syncQueue : /\ row.tableName = w.tableName
                                           /\ row.operation = w.operation
                                           /\ row.recordId = w.recordId}
            failed == {j \in DOMAIN ledger.failed : ledger.failed[j] = w}
        IN Cardinality(queued) = Cardinality(failed)

\* C21: when disconnectBank of an existing connection returns, whether or not
\* the provider's disconnect failed, the connection is gone from the store, no
\* account linked to it is left and every other account is as it was.
C21_DisconnectRemovesLinked ==
    [][(step'.call = "disconnectBank" /\ step'.done = "returned") =>
          \E c \in connections :
             /\ connections' = connections \ {c}
             /\ \A a \in accounts' : a.bankConnectionId # c.id
             /\ accounts' = {a \in accounts : a.bankConnectionId # c.id}]_vars

\* C21 witness: disconnectBank returned after deleting linked accounts, and an
\* account kept by hand is still there
C21_Witness ==
    /\ step.call = "disconnectBank" /\ step.done = "returned"
    /\ step.items # <<>>
    /\ connections = {}
    /\ accounts # {}

\* C22: when connectBank raises, no connection record and no linked account
\* was added to the local store or queued for the remote store.
C22_FailedConnectAddsNothing ==
    [][(step'.call = "connectBank" /\ step'.done = "threw") =>
          /\ connections' = connections
          /\ accounts' = accounts
          /\ syncQueue' = syncQueue
          /\ remoteWrites' = remoteWrites]_vars

\* C23: every error that leaves an operation of the provider is an
\* AuthenticationError, a RateLimitError or a ConnectionError ("false" is
\* what validateConnection returns without a token, and validateConnection
\* turns every error of its request into the value false).
C23_OnlyBankingErrorsLeave ==
    (mono.method \notin {"none", "validateConnection"}) =>
        mono.outcome \in {"ok", "AuthenticationError", "RateLimitError", "ConnectionError"}

\* C24: the first request of the cursor-paginated listing carries no cursor
\* and every later one the next_cursor of the page before it; requests go on
\* exactly while has_more is true; the call returns the accumulated added and
\* modified transactions of the requested account dated inside the inclusive
\* window, in order; and it returns once a page came with has_more = false.
C24_CursorPagination ==
    /\ [](/\ \A k \in DOMAIN plaid.cursors :
                plaid.cursors[k] = IF k = 1 THEN 0 ELSE plaid.nexts[k - 1]
          /\ plaid.pc = "done" =>
                LET all == PlaidAccumulate(plaid.served)
                    kept == SelectSeq(all, LAMBDA tx : /\ tx.account_id = plaid.accountId
                                                       /\ tx.date >= WindowStart
                                                       /\ tx.date <= WindowEnd)
                IN /\ Len(plaid.result) = Len(kept)
                   /\ \A k \in DOMAIN kept :
                         /\ plaid.result[k].id = kept[k].transaction_id
                         /\ plaid.result[k].accountId = plaid.accountId)
    /\ [][/\ Len(plaid'.served) > Len(plaid.served) => (plaid.pc = "idle" \/ plaid.hasMore)
          /\ plaid'.pc = "done" => ~plaid.hasMore]_vars
    /\ ((plaid.pc = "loop" /\ ~plaid.hasMore) ~> plaid.pc = "done")

\* C24 witness: two pages were requested, the second with the cursor of the
\* first, and the call returned a transaction of the second page while
\* leaving out one of another account or date
C24_Witness ==
    /\ plaid.pc = "done"
    /\ Len(plaid.served) = 2
    /\ plaid.cursors[2] = plaid.nexts[1]
    /\ Len(plaid.result) >= 1
    /\ Len(plaid.result) < Len(PlaidAccumulate(plaid.served))
    /\ plaid.served[2].modified # <<>>

\* C25: for the keys of a queued payload, translating every key to the remote
\* convention and naming the columns back recovers the original keys, and no
\* two keys of a payload become the same column.
C25_KeyRoundTrip ==
    (translated.done /\ translated.obj # {}) =>
        /\ \A key \in translated.obj :
              /\ SnakeKey(key) \in translated.result
              /\ CamelKey(SnakeKey(key)) = key
        /\ {CamelKey(column) : column \in translated.result} = translated.obj
        /\ Cardinality(translated.result) = Cardinality(translated.obj)

\* C25 witness: the payload of a transaction insert was translated and
\* bankTransactionId became bank_transaction_id
C25_Witness ==
    /\ translated.done
    /\ translated.obj = InternalKeys.transactions
    /\ <<"b", "a", "n", "k", "_", "t", "r", "a", "n", "s", "a", "c", "t", "i", "o", "n",
          "_", "i", "d">> \in translated.result

C30_FlagEventuallyCleared == sm.isSyncing ~> ~sm.isSyncing

\* C27: after a sync pass through the Monobank provider that listed n >= 2
\* accounts and made all its listings less than one interval apart, at most
\* one listing was accepted by the limiter, every other listing was rejected
\* with RateLimitError and recorded as an error of its account, and the pass
\* reports success = false.
C27_SharedThrottle ==
    LET pass == mono.pass
    IN (/\ pass.listed /\ pass.n >= 2
        /\ pass.at[pass.n] - pass.at[1] < MIN_REQUEST_INTERVAL) =>
           /\ Cardinality(pass.accepted) <= 1
           /\ \A i \in (1..pass.n) \ pass.accepted :
                 i \in pass.limited /\ i \in pass.errors
           /\ ~pass.success

\* a pass over two accounts less than a minute apart, the listing of one
\* accepted and answered, the other thrown back by the limiter
C27_Witness ==
    LET pass == mono.pass
    IN /\ pass.listed /\ pass.n >= 2
       /\ pass.at[pass.n] - pass.at[1] < MIN_REQUEST_INTERVAL
       /\ Cardinality(pass.accepted) = 1 /\ pass.errors = pass.limited
       /\ pass.limited # {} /\ ~pass.success

C31_ReplayedRowEqualsDirect ==
    inserted.pc = "replayed" => inserted.replayed = inserted.direct

\* C32: a transaction whose isSynced flag is true in the list has no pending
\* queue row and the remote row carries its latest local mutation, in every
\* state of every interleaving of addTransaction and updateTransaction.
C32_SyncedMeansAcknowledged ==
    \A t \in txstore.list :
        t.isSynced => /\ txstore.queue = {}
                      /\ txstore.remoteRows = {[value |-> t.value]}

\* C34: a loadTransactions whose remote read succeeds leaves in the list a
\* transaction that was in it and has an insert or an update in the queue.
C34_PendingStaysVisible ==
    [][(/\ txstore'.loads = txstore.loads + 1
        /\ configured /\ RemoteOk
        /\ txstore.list # {}
        /\ \E x \in txstore.queue : x.operation \in {"insert", "update"})
          => txstore'.list # {}]_vars

\* C35: when the service call of a pass has returned, every provider
\* transaction counted in newTransactions is held by exactly one local
\* transaction that carries its external id and belongs to the local account
\* linked to this connection and to the transaction's external account, and
\* newTransactions is the number of local transactions the pass added.
C35_CountedIsPersisted ==
    bank.svc = "returned" =>
        /\ \A k \in DOMAIN bank.cb :
              Cardinality({i \in DOMAIN transactions :
                  /\ transactions[i].bankTransactionId = bank.cb[k].id
                  /\ \E a \in accounts :
                        /\ a.id = transactions[i].accountId
                        /\ a.bankConnectionId = bank.conn
                        /\ a.externalAccountId = bank.cb[k].accountId}) = 1
        /\ bank.result.newTransactions =
              Cardinality({i \in DOMAIN transactions :
                              transactions[i].bankTransactionId \notin bank.K \cup {0}})

\* C33: whatever the overlap of the syncConnection passes on a connection,
\* no two local transactions carry the same provider transaction id.
C33_ImportedOnce ==
    \A i, j \in DOMAIN overlap.transactions :
        i # j => overlap.transactions[i].bankTransactionId
                    # overlap.transactions[j].bankTransactionId

\* the sum of the balances of the accounts 1..n
RECURSIVE BalanceSum(_, _)
BalanceSum(balance, n) == IF n = 0 THEN 0 ELSE balance[n] + BalanceSum(balance, n - 1)

\* C36: once every transfer that was started has ended, the sum of the
\* account balances is what it was before the first transfer, and no balance
\* is negative at any time; this for every pair of ids, fromId = toId and a
\* missing account included, and for transfers that overlap.
C36_TransferPreservesSum ==
    /\ \A a \in TransferAccounts : transfer.balance[a] >= 0
    /\ (\A c \in 1..MaxTransfers : transfer.calls[c].pc # "source") =>
          BalanceSum(transfer.balance, MaxTransferAccounts)
              = BalanceSum(transfer.opening, MaxTransferAccounts)

====
